---- MODULE Spec2Model ----
(***************************************************************************)
(* Model of the meme-data-crawler pipeline:                                *)
(*   - the acquisition engine   (src/src/crawler/engine.rs, downloader.rs) *)
(*   - the durable store        (src/src/file_manager.rs)                  *)
(*   - the deduplication engine (src/src/dedup.rs)                         *)
(*   - the enrichment engine    (src/src/reverse_search/engine.rs)         *)
(*   - the network calls        (src/src/fetcher.rs, downloader.rs)        *)
(*   - the keyword filter       (src/src/reverse_search/types.rs)          *)
(* The specifications share the variables:                                 *)
(*   Spec        acquisition runs, with process kills and re-runs          *)
(*   SpecReplay  the same, against a site that always answers the same way *)
(*   SpecDedup   downloads, then analyze / remove_duplicates               *)
(*   SpecSearch  a small acquisition, then reverse-search runs             *)
(*   SpecFetch   one fetch_with_retry or one download, request by request  *)
(*   SpecDamaged acquisition runs on a store whose checkpoint is damaged   *)
(*   SpecBadLog  enrichment and deduplication on a log with damaged lines  *)
(*   SpecFilter  one KeywordFilter::filter call or one service search      *)
(*   SpecFullRun one uninterrupted acquisition run where all succeeds      *)
(*   SpecTrip    one save_progress followed by one load_progress           *)
(*   SpecEnrich  reverse-search runs step by step, with failing writes     *)
(***************************************************************************)
EXTENDS Integers, Sequences, FiniteSets, TLC

(***************************************************************************)
(* Bounds of the model.                                                    *)
(***************************************************************************)
\* Acquisition: total_pages + concurrency + (number of runs, kills and re-runs
\* included) is at most Budget, each being at least 1.
Budget == 6
\* Deduplication: number of downloads that build the store.
MaxLog == 3
\* Enrichment: number of configured services. Its runs count in Budget.
MaxServices == 2
\* Network calls: the largest max_retries of HttpFetcher.
MaxRetries == 2

VARIABLES
    \* ---- configuration (CrawlerEngine fields)
    total_pages,        \* CrawlerEngine.total_pages
    concurrency,        \* CrawlerConfig.concurrency
    answers,            \* how the site answers: freely, or the same way every time
    \* ---- disk
    progressFiles,      \* progress.json and progress.json.tmp
    metaFiles,          \* metadata.jsonl, metadata.jsonl.tmp, metadata.jsonl.backup
    images,             \* images/<filename> -> content hash of the blob
    searchFiles,        \* search_progress.json and search_progress.json.tmp
    results,            \* reverse_search_results.jsonl
    \* ---- CrawlerEngine::run
    runPc,              \* position of run()
    progress,           \* the Progress behind progress_mutex
    start_page,
    batch_start,
    nextPage,           \* next page of the batch to spawn / to await
    semaphore,          \* available permits
    fmLock,             \* holder of the file_manager mutex: 0 (free) or the page of a task
    task,               \* page -> the spawned task's state
    runs,               \* number of runs the operator may still start
    \* ---- history of the acquisition (not program state)
    loadedLast,         \* last_completed_page of the checkpoint loaded by this run
    launched,           \* pages spawned in this run
    fetched,            \* pages whose fetch_page was called in this run
    succeeded,          \* pages whose process_page_static returned Ok, in any run
    failed,             \* pages whose process_page_static returned Err in this run
    atLoad,             \* the checkpoint's counters and the log's length at load
    \* ---- DedupAnalyzer (run_dedup: analyze, then remove_duplicates)
    dedupPc,            \* position of run_dedup
    result,             \* the DedupResult of analyze()
    dry_run,
    files_to_remove,
    removed_count,
    group,              \* index of the current dup_group in result.duplicates
    fileIdx,            \* index i of the current filename in dup_group.files
    downloads,          \* downloads made so far (bounded by MaxLog)
    \* ---- history of the removal
    preMeta,            \* metaFiles when remove_duplicates was called
    preImages,          \* images when remove_duplicates was called
    \* ---- ReverseSearchEngine
    services,           \* names of the configured services, in order
    searchPc,           \* position of run()
    searchProgress,     \* SearchProgress.completed_files
    pending,            \* filenames still to search, in metadata order
    idx,                \* index into pending
    svc,                \* index into services
    searchRuns,         \* number of runs of the engine started so far (its clock)
    \* ---- history of the enrichment run
    loadedCompleted,    \* completed_files of the checkpoint loaded by this run
    attempted,          \* <<filename, service>> whose search returned in this run
    interrupted,        \* filenames whose item a kill cut short, not completed since
    \* ---- one network call (HttpFetcher::fetch_with_retry or download_and_save)
    max_retries,        \* HttpFetcher.max_retries
    responses,          \* what the server answers to the successive requests
    fetchPc,            \* the call and its position
    attempt,            \* loop variable of fetch_with_retry
    sent,               \* HTTP requests sent so far by the call
    waits,              \* the sleeps of the call so far, in seconds
    filter,             \* the KeywordFilter in use
    document,           \* what the backend's answer holds: keywords, match count
    filtered,           \* the value returned by KeywordFilter::filter
    filterPc,           \* the call followed and its position
    saved,              \* the Progress given to save_progress
    reloaded,           \* the value returned by load_progress after it
    tripPc,             \* position in the save-then-load sequence
    capacity,           \* ReverseSearchEngine.concurrency
    gate,               \* permits left in the semaphore of ReverseSearchEngine::run
    held,               \* permits held by the loop of ReverseSearchEngine::run
    calls,              \* the service.search calls started so far, in order
    aborted             \* the item at which a run stopped on a failed write

configVars == <<total_pages, concurrency, answers>>
storeVars == <<metaFiles, images>>
crawlMem == <<runPc, progress, start_page, batch_start, nextPage, semaphore, fmLock,
              task, runs>>
crawlHist == <<loadedLast, launched, fetched, succeeded, failed, atLoad>>
crawlVars == <<progressFiles, crawlMem, crawlHist>>
dedupVars == <<dedupPc, result, dry_run, files_to_remove, removed_count, group, fileIdx,
               downloads, preMeta, preImages>>
searchVars == <<services, searchFiles, results, searchPc, searchProgress, pending, idx,
                svc, searchRuns, loadedCompleted, attempted, interrupted>>
fetchVars == <<max_retries, responses, fetchPc, attempt, sent, waits>>
filterVars == <<filter, document, filtered, filterPc>>
tripVars == <<saved, reloaded, tripPc>>
enrichVars == <<capacity, gate, held, calls, aborted>>
callVars == <<fetchVars, filterVars, tripVars, enrichVars>>
vars == <<configVars, storeVars, crawlVars, dedupVars, searchVars, callVars>>

\* what the acquisition engine never touches
crawlFrame == <<configVars, dedupVars, searchVars, callVars>>

Pages == 1..total_pages

(***************************************************************************)
(* Files holding a document: absent, partly written, or complete.          *)
(***************************************************************************)
Absent == [st |-> "absent"]
Partial == [st |-> "partial"]
Full(doc) == [st |-> "full", val |-> doc]

\* fs::rename
Rename(files, from, to) ==
    IF from = to THEN files
    ELSE [files EXCEPT ![to] = files[from], ![from] = Absent]

Min(a, b) == IF a < b THEN a ELSE b

Contains(seq, x) == \E i \in 1..Len(seq) : seq[i] = x

(***************************************************************************)
(* types.rs: Progress                                                      *)
(***************************************************************************)
\* Progress::new
ProgressNew == [last_completed_page |-> 0, total_images_downloaded |-> 0,
                failed_pages |-> <<>>]

\* Progress::update
\* (faulty variant of the definition that follows it, for sensitivity runs)
UpdatePerPage(p, page, images_count) ==
    [p EXCEPT !.last_completed_page = page,
              !.total_images_downloaded = @ + 1]
Update(p, page, images_count) ==
    [p EXCEPT !.last_completed_page = page,
              !.total_images_downloaded = @ + images_count]

\* Progress::add_failed_page
\* (faulty variant of the definition that follows it, for sensitivity runs)
AddFailedPageIgnored(p, page) == p
AddFailedPage(p, page) ==
    IF Contains(p.failed_pages, page) THEN p
    ELSE [p EXCEPT !.failed_pages = Append(@, page)]

(***************************************************************************)
(* file_manager.rs: paths                                                  *)
(***************************************************************************)
\* FileManager::save_progress: path and temp_path
ProgressPath == "progress.json"
\* (faulty variant of the definition that follows it, for sensitivity runs)
ProgressTempPathDirect == "progress.json"
ProgressTempPath == "progress.json.tmp"

\* FileManager::rewrite_metadata / backup_metadata: path, temp_path, backup_path
MetadataPath == "metadata.jsonl"
\* (faulty variant of the definition that follows it, for sensitivity runs)
MetadataTempPathDirect == "metadata.jsonl"
MetadataTempPath == "metadata.jsonl.tmp"
MetadataBackupPath == "metadata.jsonl.backup"

\* ReverseSearchEngine::save_progress: progress_file and temp_path
SearchProgressPath == "search_progress.json"
SearchTempPath == "search_progress.json.tmp"

\* metadata.jsonl as another hand may have left it: the lines of the records,
\* with blank lines among them, or with a line that is not a record
WithBlankLines(records) == [st |-> "blank_lines", val |-> records]
WithBadLine(records) == [st |-> "bad_line", val |-> records]

\* FileManager::load_all_metadata: no file gives an empty list; blank lines
\* are skipped; these are the records of the lines that parse ...
load_all_metadata(file) ==
    IF file.st \in {"full", "blank_lines", "bad_line"} THEN file.val ELSE <<>>

\* ... and this tells whether the read returns them or fails: serde_json::
\* from_str(&line)? returns the error of the first line that does not parse
\* (faulty variant of the definition that follows it, for sensitivity runs)
LoadSkipsBadLines(file) == FALSE
LoadFails(file) == file.st \in {"bad_line", "partial"}

\* FileManager::append_metadata: OpenOptions create + append; the BufWriter
\* holds the record and its newline until flush writes them as one line
\* (faulty variant of the definition that follows it, for sensitivity runs)
append_metadata_truncating(files, record) ==
    [files EXCEPT ![MetadataPath] = Full(<<record>>)]
append_metadata(files, record) ==
    LET file == files[MetadataPath] IN
    [files EXCEPT ![MetadataPath] =
        CASE file.st = "absent" -> Full(<<record>>)
          [] file.st = "partial" -> WithBadLine(<<record>>)
          [] OTHER -> [file EXCEPT !.val = Append(file.val, record)]]

\* FileManager::load_progress: no file gives Progress::new(); a file that does
\* not parse gives an error
LoadError == [ok |-> FALSE]
Loaded(doc) == [ok |-> TRUE, val |-> doc]
\* (faulty variant of the definition that follows it, for sensitivity runs)
load_progress_lenient(file) ==
    IF file.st = "full" THEN Loaded(file.val) ELSE Loaded(ProgressNew)
load_progress(file) ==
    CASE file.st = "absent" -> Loaded(ProgressNew)
      [] file.st = "full" -> Loaded(file.val)
      [] OTHER -> LoadError

\* FileManager::save_image: fs::write(images/<filename>, data)
\* (faulty variant of the definition that follows it, for sensitivity runs)
save_image_skipped(blobs, filename, hash) == blobs
save_image(blobs, filename, hash) == (filename :> hash) @@ blobs

(***************************************************************************)
(* The listing site.  It answers the same way on every request.  Page 1    *)
(* lists two resources; page 2 repeats the first of them (same label, same *)
(* bytes); page 3 has the same bytes under another label; later pages list *)
(* one resource of their own.                                              *)
(***************************************************************************)
Resource(name, hash) == [name |-> name, hash |-> hash, ext |-> "jpg"]

\* The requests of the acquisition: <<p, 0>> is the fetch and parse of page p,
\* <<p, i>> the download of its i-th resource.  The site either answers each
\* request as it likes (transient failures), or answers the same way every
\* time, failing exactly the requests of answers.failing.
FreeAnswers == [fixed |-> FALSE, failing |-> {}]
Outcomes(unit) == IF answers.fixed THEN {unit \notin answers.failing} ELSE BOOLEAN

SiteResources(p) ==
    CASE p = 1 -> << Resource("cat", <<"aaaaaaaa", "x">>),
                     Resource("dog", <<"bbbbbbbb", "x">>) >>
      [] p = 2 -> << Resource("cat", <<"aaaaaaaa", "x">>) >>
      [] p = 3 -> << Resource("a/b", <<"aaaaaaaa", "x">>) >>
      [] OTHER -> << Resource("own", <<"cccccccc", p>>) >>

\* What one HTTP request can get: a 2xx response with a readable body, a 2xx
\* response whose body cannot be read, a non-2xx response, or no response at
\* all (connection error, timeout).
Responses == {"ok", "body_error", "http_error", "transport_error"}

\* response.bytes() of a non-2xx response: the body of the error page
ErrorBody == <<"eeeeeeee", "404">>

\* let response = reqwest::get(url).await?; let bytes = response.bytes().await?;
\* the resource as download_and_save sees it: its bytes are those of the response
Received(r, resp) == IF resp = "ok" THEN r ELSE [r EXCEPT !.hash = ErrorBody]

\* reqwest::get(url).await? and response.bytes().await? both return Ok
Stores(resp) == resp \in {"ok", "http_error"}

\* sanitize_filename: the reserved characters become '_' (at most 50 chars kept)
sanitize_filename(name) ==
    CASE name = "a/b" -> "a_b"
      [] name = "a:b" -> "a_b"
      [] OTHER -> name

\* &hash[..8]: a content hash is modelled as <<its first 8 hex chars, the rest>>
HashPrefix(hash) == hash[1]

\* format!("{}_{}.{}", &hash[..8], sanitize_filename(name), ext)
Filename(hash, name, ext) == <<HashPrefix(hash), sanitize_filename(name), ext>>

\* ImageMetadata built by download_and_save
ImageMetadata(r, page) ==
    [filename |-> Filename(r.hash, r.name, r.ext), description |-> r.name,
     content_hash |-> r.hash, page_number |-> page]

NoTask == [pc |-> "none", permit |-> FALSE, todo |-> 0, idx |-> 0, count |-> 0,
           ok |-> FALSE]


(***************************************************************************)
(* reverse_search/types.rs: KeywordFilter. A keyword is the sequence of    *)
(* its characters.                                                         *)
(***************************************************************************)
\* the characters of the model in increasing byte order
Alphabet == <<" ", "1", "2", "3", "C", "X", "a", "b", "c", "d", "e", "h", "l", "m", "n",
              "o", "p", "r", "s", "t", "u", "x">>

\* char::to_lowercase
Lower(ch) == CASE ch = "C" -> "c" [] ch = "X" -> "x" [] OTHER -> ch

\* str::to_lowercase
to_lowercase(kw) == [i \in 1..Len(kw) |-> Lower(kw[i])]

\* str::contains
contains(hay, needle) ==
    \E i \in 0..(Len(hay) - Len(needle)) : SubSeq(hay, i + 1, i + Len(needle)) = needle

\* KeywordFilter { blocklist, allowlist, min_length }
KeywordFilter(blocklist, allowlist, min_length) ==
    [blocklist |-> blocklist, allowlist |-> allowlist, min_length |-> min_length]

\* the filter built by main.rs: porn, xxx, adult, sex; no allowlist; 3
MainFilter ==
    KeywordFilter(<< <<"p", "o", "r", "n">>, <<"x", "x", "x">>,
                     <<"a", "d", "u", "l", "t">>, <<"s", "e", "x">> >>, <<>>, 3)

\* the closure of KeywordFilter::filter: is kw kept
KeepsKeyword(self, kw) ==
    IF Len(kw) < self.min_length
    THEN FALSE
    ELSE LET kw_lower == to_lowercase(kw) IN
         IF \E i \in 1..Len(self.blocklist) : contains(kw_lower, self.blocklist[i])
         THEN FALSE
         ELSE IF self.allowlist # <<>>
              THEN \E i \in 1..Len(self.allowlist) :
                       contains(kw_lower, to_lowercase(self.allowlist[i]))
              ELSE TRUE

\* KeywordFilter::filter
Filter(self, keywords) == SelectSeq(keywords, LAMBDA kw : KeepsKeyword(self, kw))

\* what a backend's answer holds
Document(keywords, match_count) == [keywords |-> keywords, match_count |-> match_count]

\* no filter call or service search is being followed
InitFilter ==
    /\ filter = MainFilter
    /\ document = Document(<<>>, 0)
    /\ filtered = <<>>
    /\ filterPc = "idle"

\* no save_progress / load_progress pair is being followed
InitTrip ==
    /\ saved = ProgressNew
    /\ reloaded = LoadError
    /\ tripPc = "idle"

\* no reverse-search run is being followed step by step
NoItem == [run |-> 0, filename |-> <<>>, repeated |-> FALSE]
InitEnrich ==
    /\ capacity = 1
    /\ gate = 1
    /\ held = 0
    /\ calls = <<>>
    /\ aborted = NoItem
(***************************************************************************)
(* Initial states: an empty data directory, no engine running.             *)
(***************************************************************************)
InitStore ==
    /\ progressFiles = [f \in {ProgressPath, ProgressTempPath} |-> Absent]
    /\ metaFiles = [f \in {MetadataPath, MetadataTempPath, MetadataBackupPath} |-> Absent]
    /\ images = <<>>
    /\ searchFiles = [f \in {SearchProgressPath, SearchTempPath} |-> Absent]
    /\ results = <<>>

NothingLoaded == [total |-> 0, records |-> 0, failed_pages |-> <<>>]

\* CrawlerEngine::new: no run started, nothing in memory
InitEngine ==
    /\ runPc = "idle"
    /\ progress = ProgressNew
    /\ start_page = 0
    /\ batch_start = 0
    /\ nextPage = 0
    /\ semaphore = 0
    /\ fmLock = 0
    /\ task = [p \in Pages |-> NoTask]
    /\ loadedLast = 0
    /\ launched = {}
    /\ fetched = {}
    /\ succeeded = {}
    /\ failed = {}
    /\ atLoad = NothingLoaded

\* total_pages, concurrency and the number of runs, within the budget b
InitConfig(b) ==
    /\ total_pages \in 1..b
    /\ concurrency \in 1..b
    /\ runs \in 1..b
    /\ total_pages + concurrency + runs <= b

\* CrawlerEngine::new, for a configuration within the budget b
InitCrawl(b) ==
    /\ InitConfig(b)
    /\ answers = FreeAnswers
    /\ InitEngine

NoResult == [total_images |-> 0, unique_images |-> 0, duplicate_groups |-> 0,
             duplicate_images |-> 0, duplicates |-> <<>>]

\* DedupAnalyzer::new
InitDedup ==
    /\ dedupPc = "idle"
    /\ result = NoResult
    /\ dry_run = FALSE
    /\ files_to_remove = {}
    /\ removed_count = 0
    /\ group = 1
    /\ fileIdx = 1
    /\ preMeta = metaFiles
    /\ preImages = images

\* ReverseSearchEngine::new with the given services
InitSearch(names) ==
    /\ services = names
    /\ searchPc = "idle"
    /\ searchProgress = {}
    /\ pending = <<>>
    /\ idx = 1
    /\ svc = 1
    /\ loadedCompleted = {}
    /\ attempted = {}
    /\ interrupted = {}

\* no network call is being followed
InitFetch ==
    /\ max_retries = 0
    /\ responses = <<>>
    /\ fetchPc = "idle"
    /\ attempt = 0
    /\ sent = 0
    /\ waits = <<>>

Init ==
    /\ InitStore
    /\ InitCrawl(Budget)
    /\ InitDedup /\ downloads = 0
    /\ InitSearch(<<>>) /\ searchRuns = 0
    /\ InitFetch
    /\ InitFilter
    /\ InitTrip
    /\ InitEnrich

(***************************************************************************)
(* CrawlerEngine::run                                                      *)
(***************************************************************************)
\* let start_page = progress.last_completed_page + 1;
\* (two faulty variants of StartPage, for sensitivity runs)
StartPageSkipsOne(p) == p.last_completed_page + 2
StartPageResume(p) == p.last_completed_page
StartPage(p) == p.last_completed_page + 1

\* let batch_end = (batch_start + concurrency - 1).min(total_pages);
BatchEnd == Min(batch_start + concurrency - 1, total_pages)

\* for batch_start in (start_page..=total_pages).step_by(concurrency)
LoopTo(bs) == IF bs <= total_pages THEN "spawn" ELSE "done"

\* run() starts: FileManager::load_progress, start_page, Semaphore::new
LoadProgress ==
    /\ runPc \in {"idle", "done", "failed"}
    /\ searchPc \in {"idle", "done", "failed"} \* one command of main.rs at a time
    /\ dedupPc = "idle"
    /\ runs > 0
    /\ runs' = runs - 1
    /\ launched' = {}
    /\ fetched' = {}
    /\ failed' = {}
    /\ task' = [p \in Pages |-> NoTask]
    /\ fmLock' = 0
    /\ LET read == load_progress(progressFiles[ProgressPath]) IN
       IF ~read.ok
       THEN \* load_progress()? : run() returns the error
            /\ runPc' = "failed"
            /\ progress' = ProgressNew
            /\ UNCHANGED <<start_page, batch_start, nextPage, semaphore, loadedLast,
                           atLoad>>
       ELSE LET loaded == read.val IN
            /\ progress' = loaded
            /\ loadedLast' = loaded.last_completed_page
            /\ atLoad' = [total |-> loaded.total_images_downloaded,
                          records |-> Len(load_all_metadata(metaFiles[MetadataPath])),
                          failed_pages |-> loaded.failed_pages]
            /\ start_page' = StartPage(loaded)
            /\ batch_start' = StartPage(loaded)
            /\ nextPage' = StartPage(loaded)
            /\ semaphore' = concurrency
            /\ runPc' = LoopTo(StartPage(loaded))
    /\ UNCHANGED <<crawlFrame, storeVars, progressFiles, succeeded>>

\* tokio::spawn of the task of the next page of the batch
SpawnTask ==
    /\ runPc = "spawn"
    /\ task' = [task EXCEPT ![nextPage] = [NoTask EXCEPT !.pc = "waiting"]]
    /\ launched' = launched \cup {nextPage}
    /\ IF nextPage = BatchEnd
       THEN runPc' = "await" /\ nextPage' = batch_start
       ELSE runPc' = "spawn" /\ nextPage' = nextPage + 1
    /\ UNCHANGED <<crawlFrame, storeVars, progressFiles, progress, start_page,
                   batch_start, semaphore, fmLock, runs, loadedLast, fetched, succeeded,
                   failed, atLoad>>

\* let _permit = semaphore.acquire().await.unwrap();
\* (faulty variant of the definition that follows it, for sensitivity runs)
AcquireNoPermit(p) ==
    /\ task[p].pc = "waiting"
    /\ task' = [task EXCEPT ![p].pc = "fetch"]
    /\ UNCHANGED <<crawlFrame, storeVars, progressFiles, runPc, progress, start_page,
                   batch_start, nextPage, semaphore, fmLock, runs, crawlHist>>
Acquire(p) ==
    /\ task[p].pc = "waiting"
    /\ semaphore > 0
    /\ semaphore' = semaphore - 1
    /\ task' = [task EXCEPT ![p].pc = "fetch", ![p].permit = TRUE]
    /\ UNCHANGED <<crawlFrame, storeVars, progressFiles, runPc, progress, start_page,
                   batch_start, nextPage, fmLock, runs, crawlHist>>

\* the task's async block ends with (page, result): _permit is dropped
\* (faulty variant of the definition that follows it, for sensitivity runs)
FinishedCountLost(t, ok) == [NoTask EXCEPT !.pc = "finished", !.ok = ok]
Finished(t, ok) == [NoTask EXCEPT !.pc = "finished", !.ok = ok, !.count = t.count]
\* (faulty variant of the definition that follows it, for sensitivity runs)
ReleasedNever(t) == semaphore
Released(t) == IF t.permit THEN semaphore + 1 ELSE semaphore

\* process_page_static: fetcher.fetch_page(url).await? and parser.parse_page(&html)?
\* Either fails the page; otherwise the page's resources are to be downloaded.
FetchAndParse(p) ==
    /\ task[p].pc = "fetch"
    /\ fetched' = fetched \cup {p}
    /\ \E ok \in Outcomes(<<p, 0>>) :
          IF ok
          THEN /\ task' = [task EXCEPT ![p].pc = "download",
                                       ![p].todo = Len(SiteResources(p)), ![p].idx = 1]
               /\ UNCHANGED <<semaphore, failed>>
          ELSE /\ task' = [task EXCEPT ![p] = Finished(@, FALSE)]
               /\ semaphore' = Released(task[p])
               /\ failed' = failed \cup {p}
    /\ UNCHANGED <<crawlFrame, storeVars, progressFiles, runPc, progress, start_page,
                   batch_start, nextPage, fmLock, runs, loadedLast, launched, succeeded,
                   atLoad>>

\* ImageDownloader::download_and_save for the next resource of the page, up to
\* save_image: reqwest::get / bytes() may fail (the resource is skipped);
\* otherwise the task takes the file_manager lock and writes the blob.
\* The bytes are those the site sends for the resource, whatever the status of
\* the response (the requests themselves are in SpecFetch).
\* (faulty variant of the definition that follows it, for sensitivity runs)
DownloadAndSaveUnlocked(p) ==
    /\ task[p].pc = "download"
    /\ task[p].idx <= task[p].todo
    /\ \E ok \in Outcomes(<<p, task[p].idx>>) :
          IF ok
          THEN LET r == SiteResources(p)[task[p].idx]
                   m == ImageMetadata(r, p) IN
               /\ images' = save_image(images, m.filename, r.hash)
               /\ fmLock' = p
               /\ UNCHANGED task
          ELSE /\ task' = [task EXCEPT ![p].idx = @ + 1]
               /\ UNCHANGED <<images, fmLock>>
    /\ UNCHANGED <<crawlFrame, metaFiles, progressFiles, runPc, progress, start_page,
                   batch_start, nextPage, semaphore, runs, crawlHist>>
DownloadAndSave(p) ==
    /\ task[p].pc = "download"
    /\ task[p].idx <= task[p].todo
    /\ fmLock = 0
    /\ \E ok \in Outcomes(<<p, task[p].idx>>) :
          IF ok
          THEN LET r == SiteResources(p)[task[p].idx]
                   m == ImageMetadata(r, p) IN
               /\ images' = save_image(images, m.filename, r.hash)
               /\ fmLock' = p
               /\ UNCHANGED task
          ELSE /\ task' = [task EXCEPT ![p].idx = @ + 1]
               /\ UNCHANGED <<images, fmLock>>
    /\ UNCHANGED <<crawlFrame, metaFiles, progressFiles, runPc, progress, start_page,
                   batch_start, nextPage, semaphore, runs, crawlHist>>

\* ImageDownloader::download_and_save, the rest: fm.append_metadata(&metadata),
\* the lock guard is dropped, Ok(()) and success_count += 1
AppendMetadata(p) ==
    /\ task[p].pc = "download"
    /\ fmLock = p
    /\ metaFiles' = append_metadata(metaFiles, ImageMetadata(SiteResources(p)[task[p].idx], p))
    /\ fmLock' = 0
    /\ task' = [task EXCEPT ![p].idx = @ + 1, ![p].count = @ + 1]
    /\ UNCHANGED <<crawlFrame, images, progressFiles, runPc, progress, start_page,
                   batch_start, nextPage, semaphore, runs, crawlHist>>

\* Ok(success_count); main_pb.inc(1); (page, result)
FinishPage(p) ==
    /\ task[p].pc = "download"
    /\ task[p].idx > task[p].todo
    /\ task' = [task EXCEPT ![p] = Finished(@, TRUE)]
    /\ semaphore' = Released(task[p])
    /\ succeeded' = succeeded \cup {p}
    /\ UNCHANGED <<crawlFrame, storeVars, progressFiles, runPc, progress, start_page,
                   batch_start, nextPage, fmLock, runs, loadedLast, launched, fetched,
                   failed, atLoad>>

\* what follows the loop over the batch's tasks: the block that saves progress
\* (faulty variant of the definition that follows it, for sensitivity runs)
AfterBatchNoSave == "sleep"
AfterBatch == "save_create"

\* for task in tasks: the tasks are awaited in the order they were pushed,
\* which is increasing page order
\* (faulty variant of the definition that follows it, for sensitivity runs)
AwaitedReverse == batch_start + BatchEnd - nextPage
Awaited == nextPage

\* for task in tasks { let (page, result) = task.await.unwrap(); match result ... }
AwaitTask ==
    /\ runPc = "await"
    /\ task[Awaited].pc = "finished"
    /\ progress' = IF task[Awaited].ok
                   THEN Update(progress, Awaited, task[Awaited].count)
                   ELSE AddFailedPage(progress, Awaited)
    /\ task' = [task EXCEPT ![Awaited] = NoTask]
    /\ IF nextPage = BatchEnd
       THEN runPc' = AfterBatch /\ UNCHANGED nextPage
       ELSE runPc' = "await" /\ nextPage' = nextPage + 1
    /\ UNCHANGED <<crawlFrame, storeVars, progressFiles, start_page, batch_start,
                   semaphore, fmLock, runs, crawlHist>>

\* FileManager::save_progress: File::create(&temp_path)
SaveCreate ==
    /\ runPc = "save_create"
    /\ progressFiles' = [progressFiles EXCEPT ![ProgressTempPath] = Partial]
    /\ runPc' = "save_write"
    /\ UNCHANGED <<crawlFrame, storeVars, progress, start_page, batch_start, nextPage,
                   semaphore, fmLock, task, runs, crawlHist>>

\* FileManager::save_progress: serde_json::to_writer_pretty(file, progress)
SaveWrite ==
    /\ runPc = "save_write"
    /\ progressFiles' = [progressFiles EXCEPT ![ProgressTempPath] = Full(progress)]
    /\ runPc' = "save_rename"
    /\ UNCHANGED <<crawlFrame, storeVars, progress, start_page, batch_start, nextPage,
                   semaphore, fmLock, task, runs, crawlHist>>

\* FileManager::save_progress: fs::rename(&temp_path, &path); then
\* if batch_end < self.total_pages { sleep } and the next iteration of the loop
SaveRename ==
    /\ runPc = "save_rename"
    /\ progressFiles' = Rename(progressFiles, ProgressTempPath, ProgressPath)
    /\ IF BatchEnd < total_pages
       THEN runPc' = "sleep" /\ UNCHANGED <<batch_start, nextPage>>
       ELSE /\ batch_start' = batch_start + concurrency
            /\ nextPage' = batch_start + concurrency
            /\ runPc' = LoopTo(batch_start + concurrency)
    /\ UNCHANGED <<crawlFrame, storeVars, progress, start_page, semaphore, fmLock, task,
                   runs, crawlHist>>

\* tokio::time::sleep(batch_delay_ms), then the next batch
Sleep ==
    /\ runPc = "sleep"
    /\ batch_start' = batch_start + concurrency
    /\ nextPage' = batch_start + concurrency
    /\ runPc' = LoopTo(batch_start + concurrency)
    /\ UNCHANGED <<crawlFrame, storeVars, progressFiles, progress, start_page, semaphore,
                   fmLock, task, runs, crawlHist>>

\* The acquisition process is killed: memory is lost, the disk stays as it is.
Crash ==
    /\ runPc \notin {"idle", "done", "failed"}
    /\ runPc' = "idle"
    /\ progress' = ProgressNew
    /\ start_page' = 0
    /\ batch_start' = 0
    /\ nextPage' = 0
    /\ semaphore' = 0
    /\ fmLock' = 0
    /\ task' = [p \in Pages |-> NoTask]
    /\ loadedLast' = 0
    /\ launched' = {}
    /\ fetched' = {}
    /\ failed' = {}
    /\ atLoad' = NothingLoaded
    /\ UNCHANGED <<crawlFrame, storeVars, progressFiles, runs, succeeded>>

Next ==
    \/ LoadProgress
    \/ SpawnTask
    \/ \E p \in Pages : Acquire(p)
    \/ \E p \in Pages : FetchAndParse(p)
    \/ \E p \in Pages : DownloadAndSave(p)
    \/ \E p \in Pages : AppendMetadata(p)
    \/ \E p \in Pages : FinishPage(p)
    \/ AwaitTask
    \/ SaveCreate
    \/ SaveWrite
    \/ SaveRename
    \/ Sleep
    \/ Crash

Spec == Init /\ [][Next]_vars

(***************************************************************************)
(* The same engine against a site that answers every request the same way  *)
(* each time it is made: the requests of answers.failing always fail, the   *)
(* others always succeed.                                                  *)
(***************************************************************************)
Units == { u \in (1..Budget) \X (0..2) : u[1] \in Pages /\ u[2] <= Len(SiteResources(u[1])) }

InitReplay ==
    /\ InitStore
    /\ InitConfig(Budget - 1)
    /\ answers \in [fixed : {TRUE}, failing : SUBSET Units]
    /\ InitEngine
    /\ InitDedup /\ downloads = 0
    /\ InitSearch(<<>>) /\ searchRuns = 0
    /\ InitFetch
    /\ InitFilter
    /\ InitTrip
    /\ InitEnrich

SpecReplay == InitReplay /\ [][Next]_vars

(***************************************************************************)
(* dedup.rs: DedupAnalyzer, driven as main.rs run_dedup drives it.         *)
(* The store is built by downloads of resources of a small catalog: three  *)
(* labels, two of which sanitize to the same text, and three contents, two *)
(* of which share their first 8 hex characters.                            *)
(***************************************************************************)
DedupCatalog ==
    { Resource(n, h) : n \in {"cat", "a/b", "a:b"},
                       h \in { <<"aaaaaaaa", "x">>, <<"aaaaaaaa", "y">>,
                               <<"bbbbbbbb", "x">> } }

dedupFrame == <<configVars, crawlVars, searchVars, callVars>>

InitDedupSpec ==
    /\ InitStore
    \* no acquisition run: the store is built by Download
    /\ total_pages = 1 /\ concurrency = 1 /\ runs = 0 /\ answers = FreeAnswers
    /\ InitEngine
    /\ InitDedup /\ downloads = 0
    /\ InitSearch(<<>>) /\ searchRuns = 0
    /\ InitFetch
    /\ InitFilter
    /\ InitTrip
    /\ InitEnrich

\* ImageDownloader::download_and_save of resource r, found on page `page`
Download(r, page) ==
    /\ dedupPc = "idle"
    /\ downloads < MaxLog
    /\ downloads' = downloads + 1
    /\ LET m == ImageMetadata(r, page) IN
       /\ images' = save_image(images, m.filename, r.hash)
       /\ metaFiles' = append_metadata(metaFiles, m)
    /\ UNCHANGED <<dedupFrame, dedupPc, result, dry_run, files_to_remove, removed_count,
                   group, fileIdx, preMeta, preImages>>

\* hash_map.entry(content_hash).or_insert_with(Vec::new).push(metadata):
\* the records of one hash, in log order, and their filenames
GroupOf(all, hash) == SelectSeq(all, LAMBDA m : m.content_hash = hash)
FilesOf(items) == [i \in 1..Len(items) |-> items[i].filename]
HashesOf(all) == { all[i].content_hash : i \in 1..Len(all) }

\* DuplicateRecord of every hash with items.len() > 1
\* (faulty variant of the definition that follows it, for sensitivity runs)
ClustersOfAllHashes(all) ==
    { [content_hash |-> h, files |-> FilesOf(GroupOf(all, h))] : h \in HashesOf(all) }
Clusters(all) ==
    { [content_hash |-> h, files |-> FilesOf(GroupOf(all, h))] :
        h \in { x \in HashesOf(all) : Len(GroupOf(all, x)) > 1 } }

\* for (hash, items) in hash_map.iter(): a HashMap iterates in no fixed order
Orders(S) ==
    { s \in [1..Cardinality(S) -> S] : \A i, j \in 1..Cardinality(S) : s[i] = s[j] => i = j }

RECURSIVE SumLen(_, _)
\* hash_map.values().map(|v| v.len()).sum()
SumLen(all, hs) ==
    IF hs = {} THEN 0
    ELSE LET h == CHOOSE x \in hs : TRUE IN Len(GroupOf(all, h)) + SumLen(all, hs \ {h})

RECURSIVE DuplicateCount(_)
\* duplicate_count += items.len() - 1, over the groups with items.len() > 1
DuplicateCount(cs) ==
    IF cs = {} THEN 0
    ELSE LET c == CHOOSE x \in cs : TRUE IN (Len(c.files) - 1) + DuplicateCount(cs \ {c})

\* DedupAnalyzer::analyze
Analyze ==
    /\ dedupPc = "idle"
    \* the operator runs one command of main.rs at a time
    /\ runPc \in {"idle", "done", "failed"} /\ searchPc \in {"idle", "done", "failed"}
    /\ IF LoadFails(metaFiles[MetadataPath])
       THEN \* load_all_metadata()? : analyze and run_dedup return the error
            /\ dedupPc' = "load_failed"
            /\ UNCHANGED result
       ELSE LET all == load_all_metadata(metaFiles[MetadataPath]) IN
            /\ \E dups \in Orders(Clusters(all)) :
                  result' = [total_images |-> SumLen(all, HashesOf(all)),
                             unique_images |-> Cardinality(HashesOf(all)),
                             duplicate_groups |-> Len(dups),
                             duplicate_images |-> DuplicateCount(Clusters(all)),
                             duplicates |-> dups]
            /\ dedupPc' = "analyzed"
    /\ UNCHANGED <<dedupFrame, storeVars, dry_run, files_to_remove, removed_count, group,
                   fileIdx, downloads, preMeta, preImages>>

\* FileManager::backup_metadata: fs::copy(path, backup_path) if path exists
\* (faulty variant of the definition that follows it, for sensitivity runs)
backup_skipped(files) == files
backup_metadata(files) ==
    IF files[MetadataPath].st # "absent"
    THEN [files EXCEPT ![MetadataBackupPath] = files[MetadataPath]]
    ELSE files

\* for dup_group in &result.duplicates: position of the scan after a step
ScanPc(g) == IF g > Len(result.duplicates) THEN "update" ELSE "scan"

\* remove_duplicates(result, dry_run) is called: the backup, unless dry_run.
\* backup_metadata()? may fail: remove_duplicates returns the error.
RemoveStart(dry) ==
    /\ dedupPc = "analyzed"
    /\ dry_run' = dry
    /\ preMeta' = metaFiles
    /\ preImages' = images
    /\ files_to_remove' = {}
    /\ removed_count' = 0
    /\ group' = 1
    /\ fileIdx' = 1
    /\ IF dry
       THEN /\ dedupPc' = ScanPc(1)
            /\ UNCHANGED metaFiles
       ELSE \/ /\ metaFiles' = backup_metadata(metaFiles)
               /\ dedupPc' = ScanPc(1)
            \/ /\ metaFiles[MetadataPath].st # "absent"
               /\ \/ UNCHANGED metaFiles
                  \/ metaFiles' = [metaFiles EXCEPT ![MetadataBackupPath] = Partial]
               /\ dedupPc' = "backup_failed"
    /\ UNCHANGED <<dedupFrame, images, result, downloads>>

\* if i == 0 { println!("保留"); continue; }
\* (faulty variant of the definition that follows it, for sensitivity runs)
KeepsNone(i) == FALSE
Keeps(i) == i = 1

\* one filename of the current dup_group: kept if first, otherwise inserted into
\* files_to_remove and, unless dry_run, fs::remove_file (which may fail)
ScanFile ==
    /\ dedupPc = "scan"
    /\ LET files == result.duplicates[group].files
           filename == files[fileIdx]
           last == fileIdx = Len(files)
       IN
       /\ IF Keeps(fileIdx)
          THEN UNCHANGED <<files_to_remove, removed_count, images>>
          ELSE /\ files_to_remove' = files_to_remove \cup {filename}
               /\ IF dry_run
                  THEN UNCHANGED <<removed_count, images>>
                  ELSE \/ /\ filename \in DOMAIN images
                          /\ images' = [f \in DOMAIN images \ {filename} |-> images[f]]
                          /\ removed_count' = removed_count + 1
                       \/ UNCHANGED <<removed_count, images>>
       /\ IF last
          THEN group' = group + 1 /\ fileIdx' = 1 /\ dedupPc' = ScanPc(group + 1)
          ELSE fileIdx' = fileIdx + 1 /\ UNCHANGED <<group, dedupPc>>
    /\ UNCHANGED <<dedupFrame, metaFiles, result, dry_run, downloads, preMeta, preImages>>

\* if !dry_run && !files_to_remove.is_empty()
\* (two faulty variants of ShouldRewrite, for sensitivity runs)
ShouldRewriteNever(dry, remove) == FALSE
ShouldRewriteAlways(dry, remove) == remove # {}
ShouldRewrite(dry, remove) == ~dry /\ remove # {}

\* all_metadata.into_iter().filter(|m| !files_to_remove.contains(&m.filename))
\* (faulty variant of the definition that follows it, for sensitivity runs)
FilterMetadataDeleted(all, remove) ==
    SelectSeq(all, LAMBDA m : m.filename \notin remove \/ m.filename \in DOMAIN images)
FilterMetadata(all, remove) == SelectSeq(all, LAMBDA m : m.filename \notin remove)

\* the metadata update is skipped
SkipRewrite ==
    /\ dedupPc = "update"
    /\ ~ShouldRewrite(dry_run, files_to_remove)
    /\ dedupPc' = "done"
    /\ UNCHANGED <<dedupFrame, storeVars, result, dry_run, files_to_remove, removed_count,
                   group, fileIdx, downloads, preMeta, preImages>>

\* load_all_metadata()? of the update, then FileManager::rewrite_metadata:
\* File::create(&temp_path)
RewriteCreate ==
    /\ dedupPc = "update"
    /\ ShouldRewrite(dry_run, files_to_remove)
    /\ IF LoadFails(metaFiles[MetadataPath])
       THEN dedupPc' = "load_failed" /\ UNCHANGED metaFiles
       ELSE /\ metaFiles' = [metaFiles EXCEPT ![MetadataTempPath] = Partial]
            /\ dedupPc' = "rewrite_write"
    /\ UNCHANGED <<dedupFrame, images, result, dry_run, files_to_remove, removed_count,
                   group, fileIdx, downloads, preMeta, preImages>>

\* FileManager::rewrite_metadata: the filtered records are written and flushed
RewriteWrite ==
    /\ dedupPc = "rewrite_write"
    /\ metaFiles' = [metaFiles EXCEPT ![MetadataTempPath] =
            Full(FilterMetadata(load_all_metadata(metaFiles[MetadataPath]),
                                files_to_remove))]
    /\ dedupPc' = "rewrite_rename"
    /\ UNCHANGED <<dedupFrame, images, result, dry_run, files_to_remove, removed_count,
                   group, fileIdx, downloads, preMeta, preImages>>

\* FileManager::rewrite_metadata: fs::rename(&temp_path, &path); Ok(())
RewriteRename ==
    /\ dedupPc = "rewrite_rename"
    /\ metaFiles' = Rename(metaFiles, MetadataTempPath, MetadataPath)
    /\ dedupPc' = "done"
    /\ UNCHANGED <<dedupFrame, images, result, dry_run, files_to_remove, removed_count,
                   group, fileIdx, downloads, preMeta, preImages>>

\* The process is killed during remove_duplicates: its memory is lost, the disk
\* stays as it is.  result and dry_run stay as the record of what the killed
\* call had been asked.  The scenario ends there, with the store as the kill
\* left it.
DedupCrash ==
    /\ dedupPc \in {"scan", "update", "rewrite_write", "rewrite_rename"}
    /\ dedupPc' = "killed"
    /\ files_to_remove' = {}
    /\ removed_count' = 0
    /\ group' = 1
    /\ fileIdx' = 1
    /\ UNCHANGED <<dedupFrame, storeVars, result, dry_run, downloads, preMeta, preImages>>

\* run_dedup returns (also when the operator does not confirm the removal)
DedupExit ==
    /\ dedupPc \in {"analyzed", "done", "backup_failed", "load_failed"}
    /\ dedupPc' = "idle"
    /\ result' = NoResult
    /\ dry_run' = FALSE
    /\ files_to_remove' = {}
    /\ removed_count' = 0
    /\ group' = 1
    /\ fileIdx' = 1
    /\ preMeta' = metaFiles
    /\ preImages' = images
    /\ UNCHANGED <<dedupFrame, storeVars, downloads>>

NextDedup ==
    \/ \E r \in DedupCatalog : Download(r, 1)
    \/ Analyze
    \/ \E dry \in BOOLEAN : RemoveStart(dry)
    \/ ScanFile
    \/ SkipRewrite
    \/ RewriteCreate
    \/ RewriteWrite
    \/ RewriteRename
    \/ DedupCrash
    \/ DedupExit

SpecDedup == InitDedupSpec /\ [][NextDedup]_vars

(***************************************************************************)
(* reverse_search/engine.rs: ReverseSearchEngine, started as main.rs       *)
(* run_reverse_search starts it, on the store an acquisition left.         *)
(***************************************************************************)
\* main.rs run_reverse_search: "tineye" (the default), "bing" or "all"
ServiceChoices == { <<"tineye">>, <<"bing">>, <<"tineye", "bing">> }

searchFrame == <<configVars, storeVars, crawlVars, dedupVars, callVars>>

\* SearchProgress::is_completed
\* (faulty variant of the definition that follows it, for sensitivity runs)
is_completed_never(completed, filename) == FALSE
is_completed(completed, filename) == filename \in completed

\* all_metadata.into_iter().filter(|m| !progress.is_completed(&m.filename))
\* (faulty variant of the definition that follows it, for sensitivity runs)
PendingWithoutResults(all, completed) ==
    FilesOf(SelectSeq(all, LAMBDA m :
        /\ ~is_completed(completed, m.filename)
        /\ \A i \in 1..Len(results) : results[i].filename # m.filename))
Pending(all, completed) ==
    FilesOf(SelectSeq(all, LAMBDA m : ~is_completed(completed, m.filename)))

\* for service in &self.services: the last service has been used
\* (faulty variant of the definition that follows it, for sensitivity runs)
ServicesDoneAfterFirst(s, names) == TRUE
ServicesDone(s, names) == s = Len(names)

\* run() returns ("done" for Ok, "failed" for Err) or the process is killed
\* ("idle"): the engine's memory is gone
SearchReset(pc) ==
    /\ searchPc' = pc
    /\ services' = <<>>
    /\ searchProgress' = {}
    /\ pending' = <<>>
    /\ idx' = 1
    /\ svc' = 1
    /\ loadedCompleted' = {}
    /\ attempted' = {}

\* run() starts: load_all_metadata, load_progress, pending
SearchStart(names) ==
    /\ searchPc \in {"idle", "done", "failed"}
    /\ runPc \in {"idle", "done", "failed"}
    /\ dedupPc = "idle"
    /\ runs > 0
    /\ Len(names) <= MaxServices
    /\ runs' = runs - 1
    /\ searchRuns' = searchRuns + 1
    /\ LET file == searchFiles[SearchProgressPath] IN
       IF LoadFails(metaFiles[MetadataPath]) \/ file.st = "partial"
       THEN \* load_all_metadata()? or serde_json::from_str(&content)? fails:
            \* run() returns the error
            SearchReset("failed")
       ELSE LET loaded == IF file.st = "absent" THEN {} ELSE file.val
                todo == Pending(load_all_metadata(metaFiles[MetadataPath]), loaded)
            IN
            IF todo = <<>>
            THEN SearchReset("done")
            ELSE /\ services' = names
                 /\ searchProgress' = loaded
                 /\ loadedCompleted' = loaded
                 /\ pending' = todo
                 /\ idx' = 1
                 /\ svc' = 1
                 /\ attempted' = {}
                 /\ searchPc' = "search"
    /\ UNCHANGED <<configVars, storeVars, dedupVars, callVars, progressFiles, crawlHist, runPc,
                   progress, start_page, batch_start, nextPage, semaphore, fmLock, task,
                   searchFiles, results, interrupted>>

\* what service.search(metadata) may return, Ok or Err: anything, unless the
\* outside world is one that always answers
SearchOutcomes == IF answers.fixed THEN {TRUE} ELSE BOOLEAN

\* match service.search(metadata).await: the Err arm logs the error, it does
\* not return it
\* (faulty variant of the definition that follows it, for sensitivity runs)
SearchErrorReturnedOnFailure(ok) == ~ok
SearchErrorReturned(ok) == FALSE

\* one service.search(metadata): Ok(result) is appended to the results file,
\* Err is logged; then the delay and the next service
Search ==
    /\ searchPc = "search"
    /\ \E ok \in SearchOutcomes :
          IF SearchErrorReturned(ok)
          THEN SearchReset("failed") /\ UNCHANGED results
          ELSE LET filename == pending[idx]
                   name == services[svc]
               IN
               /\ attempted' = attempted \cup {<<filename, name>>}
               /\ results' = IF ok
                             THEN Append(results, [filename |-> filename, service |-> name,
                                                   searched_at |-> searchRuns])
                             ELSE results
               /\ IF ServicesDone(svc, services)
                  THEN searchPc' = "completed" /\ svc' = 1
                  ELSE svc' = svc + 1 /\ UNCHANGED searchPc
               /\ UNCHANGED <<services, searchProgress, pending, idx, loadedCompleted>>
    /\ UNCHANGED <<searchFrame, searchFiles, searchRuns, interrupted>>

\* SearchProgress::add_completed
\* (faulty variant of the definition that follows it, for sensitivity runs)
add_completed_dropped(completed, filename) == completed
add_completed(completed, filename) == completed \cup {filename}

\* progress.add_completed(metadata.filename.clone()), then save_progress
\* begins: fs::write(&temp_path, json) creates or truncates the temp file
AddCompleted ==
    /\ searchPc = "completed"
    /\ searchProgress' = add_completed(searchProgress, pending[idx])
    /\ searchFiles' = [searchFiles EXCEPT ![SearchTempPath] = Partial]
    /\ searchPc' = "save_write"
    /\ interrupted' = interrupted \ {pending[idx]}
    /\ UNCHANGED <<searchFrame, results, services, pending, idx, svc, searchRuns,
                   loadedCompleted, attempted>>

\* save_progress: fs::write(&temp_path, json) has written the document
SearchSaveWrite ==
    /\ searchPc = "save_write"
    /\ searchFiles' = [searchFiles EXCEPT ![SearchTempPath] = Full(searchProgress)]
    /\ searchPc' = "save_rename"
    /\ UNCHANGED <<searchFrame, results, services, searchProgress, pending, idx, svc,
                   searchRuns, loadedCompleted, attempted, interrupted>>

\* save_progress: fs::rename(&temp_path, &self.progress_file); next pending item
SearchSaveRename ==
    /\ searchPc = "save_rename"
    /\ searchFiles' = Rename(searchFiles, SearchTempPath, SearchProgressPath)
    /\ IF idx = Len(pending)
       THEN SearchReset("done")
       ELSE /\ idx' = idx + 1
            /\ searchPc' = "search"
            /\ UNCHANGED <<services, searchProgress, pending, svc, loadedCompleted,
                           attempted>>
    /\ UNCHANGED <<searchFrame, results, searchRuns, interrupted>>

\* the services already used for the filename of the current item, in this run
AttemptedFor(filename) == { a[2] : a \in { b \in attempted : b[1] = filename } }

\* some, but not all, of the services have been used for the current item
MidItem ==
    /\ searchPc = "search"
    /\ AttemptedFor(pending[idx]) # {}
    /\ \E k \in 1..Len(services) : services[k] \notin AttemptedFor(pending[idx])

\* the process is killed during run()
SearchCrash ==
    /\ searchPc \notin {"idle", "done", "failed"}
    /\ SearchReset("idle")
    /\ interrupted' = IF MidItem THEN interrupted \cup {pending[idx]} ELSE interrupted
    /\ UNCHANGED <<searchFrame, searchFiles, results, searchRuns>>

InitSearchSpec ==
    /\ InitStore
    /\ InitCrawl(Budget - 1)
    /\ InitDedup /\ downloads = 0
    /\ InitSearch(<<>>) /\ searchRuns = 0
    /\ InitFetch
    /\ InitFilter
    /\ InitTrip
    /\ InitEnrich

NextSearch ==
    \/ Next
    \/ \E names \in ServiceChoices : SearchStart(names)
    \/ Search
    \/ AddCompleted
    \/ SearchSaveWrite
    \/ SearchSaveRename
    \/ SearchCrash

SpecSearch == InitSearchSpec /\ [][NextSearch]_vars

(***************************************************************************)
(* fetcher.rs and crawler/downloader.rs: one network call, request by      *)
(* request, against a server whose successive answers are fixed at the     *)
(* start (one more answer than fetch_with_retry can ask for).              *)
(***************************************************************************)
fetchFrame == <<configVars, crawlVars, dedupVars, searchVars, filterVars, tripVars, enrichVars>>

RECURSIVE Pow2(_)
\* 2u64.pow(n)
Pow2(n) == IF n = 0 THEN 1 ELSE 2 * Pow2(n - 1)

\* Duration::from_secs(2u64.pow(attempt - 1))
\* (faulty variant of the definition that follows it, for sensitivity runs)
WaitTimeFromTwo(k) == Pow2(k)
WaitTime(k) == Pow2(k - 1)

\* for attempt in 0..=self.max_retries: the last value of attempt
LastAttempt(mr) == mr

\* the resource whose download is followed
FetchedResource == Resource("cat", <<"aaaaaaaa", "x">>)

InitFetchSpec ==
    /\ InitStore
    /\ total_pages = 1 /\ concurrency = 1 /\ runs = 0 /\ answers = FreeAnswers
    /\ InitEngine
    /\ InitDedup /\ downloads = 0
    /\ InitSearch(<<>>) /\ searchRuns = 0
    /\ InitFilter
    /\ InitTrip
    /\ InitEnrich
    /\ max_retries \in 0..MaxRetries
    /\ responses \in [1..(max_retries + 2) -> Responses]
    /\ fetchPc \in {"fetch", "download"}
    /\ attempt = 0
    /\ sent = 0
    /\ waits = <<>>

\* HttpFetcher::fetch_with_retry: one turn of the loop (the sleep before a
\* retry, the request, the match on its outcome) and, after the last turn,
\* Err(last_error)
FetchAttempt ==
    /\ fetchPc = "fetch"
    /\ attempt <= LastAttempt(max_retries)
    /\ waits' = IF attempt > 0 THEN Append(waits, WaitTime(attempt)) ELSE waits
    /\ sent' = sent + 1
    /\ IF responses[sent + 1] = "ok"
       THEN fetchPc' = "fetch_ok" /\ UNCHANGED attempt
       ELSE /\ attempt' = attempt + 1
            /\ fetchPc' = IF attempt = LastAttempt(max_retries) THEN "fetch_err" ELSE "fetch"
    /\ UNCHANGED <<fetchFrame, storeVars, max_retries, responses>>

\* ImageDownloader::download_and_save: reqwest::get(url).await?, bytes().await?,
\* hash, filename, metadata, save_image, append_metadata
DownloadRequest ==
    /\ fetchPc = "download"
    /\ sent' = sent + 1
    /\ LET resp == responses[sent + 1] IN
       IF Stores(resp)
       THEN LET r == Received(FetchedResource, resp)
                m == ImageMetadata(r, 1) IN
            /\ images' = save_image(images, m.filename, r.hash)
            /\ metaFiles' = append_metadata(metaFiles, m)
            /\ fetchPc' = "download_ok"
       ELSE /\ fetchPc' = "download_err"
            /\ UNCHANGED storeVars
    /\ UNCHANGED <<fetchFrame, max_retries, responses, attempt, waits>>

NextFetch ==
    \/ FetchAttempt
    \/ DownloadRequest

SpecFetch == InitFetchSpec /\ [][NextFetch]_vars

(***************************************************************************)
(* The commands of main.rs on a store that an earlier acquisition of the   *)
(* first pages of the site left and that another hand may have damaged     *)
(* since.  SpecDamaged: acquisition runs when progress.json may have been  *)
(* removed or may no longer be a document.  SpecBadLog: deduplication and  *)
(* enrichment when metadata.jsonl may have blank lines or a line that is   *)
(* not a record.                                                           *)
(***************************************************************************)
\* the records of page p, as download_and_save appends them
RecordsOfPage(p) ==
    [i \in 1..Len(SiteResources(p)) |-> ImageMetadata(SiteResources(p)[i], p)]

RECURSIVE LeftLog(_)
\* metadata.jsonl after the acquisition of pages 1..n
LeftLog(n) == IF n = 0 THEN <<>> ELSE LeftLog(n - 1) \o RecordsOfPage(n)

\* images/ after that acquisition
LeftImages(log) ==
    [f \in { log[i].filename : i \in 1..Len(log) } |->
        (CHOOSE m \in { log[i] : i \in 1..Len(log) } : m.filename = f).content_hash]

\* progress.json after that acquisition
LeftProgress(n) ==
    [last_completed_page |-> n, total_images_downloaded |-> Len(LeftLog(n)),
     failed_pages |-> <<>>]

\* what the files may be by now
CheckpointStates(n) ==
    { Absent, Partial } \cup (IF n = 0 THEN {} ELSE { Full(LeftProgress(n)) })
LogStates(n) ==
    { IF n = 0 THEN Absent ELSE Full(LeftLog(n)),
      WithBlankLines(LeftLog(n)), WithBadLine(LeftLog(n)) }

\* the store left by the acquisition of pages 1..n, with these two files
LeftStore(n, checkpoint, log) ==
    /\ progressFiles = [f \in {ProgressPath, ProgressTempPath} |->
                            IF f = ProgressPath THEN checkpoint ELSE Absent]
    /\ metaFiles = [f \in {MetadataPath, MetadataTempPath, MetadataBackupPath} |->
                        IF f = MetadataPath THEN log ELSE Absent]
    /\ images = LeftImages(LeftLog(n))
    /\ searchFiles = [f \in {SearchProgressPath, SearchTempPath} |-> Absent]
    /\ results = <<>>

InitDamaged ==
    /\ InitCrawl(Budget - 1)
    /\ \E n \in 0..total_pages : \E checkpoint \in CheckpointStates(n) :
          LeftStore(n, checkpoint, IF n = 0 THEN Absent ELSE Full(LeftLog(n)))
    /\ InitDedup /\ downloads = 0
    /\ InitSearch(<<>>) /\ searchRuns = 0
    /\ InitFetch
    /\ InitFilter
    /\ InitTrip
    /\ InitEnrich

SpecDamaged == InitDamaged /\ [][Next]_vars

InitBadLog ==
    /\ total_pages \in 1..Budget /\ runs \in 1..Budget
    /\ total_pages + runs <= Budget - 3
    /\ concurrency = 1
    /\ answers = FreeAnswers
    /\ InitEngine
    /\ \E n \in 0..total_pages : \E log \in LogStates(n) :
          LeftStore(n, IF n = 0 THEN Absent ELSE Full(LeftProgress(n)), log)
    /\ InitDedup /\ downloads = 0
    /\ InitSearch(<<>>) /\ searchRuns = 0
    /\ InitFetch
    /\ InitFilter
    /\ InitTrip
    /\ InitEnrich

NextBadLog ==
    \/ \E names \in ServiceChoices : SearchStart(names)
    \/ Search
    \/ AddCompleted
    \/ SearchSaveWrite
    \/ SearchSaveRename
    \/ SearchCrash
    \/ Analyze
    \/ \E dry \in BOOLEAN : RemoveStart(dry)
    \/ ScanFile
    \/ SkipRewrite
    \/ RewriteCreate
    \/ RewriteWrite
    \/ RewriteRename
    \/ DedupCrash
    \/ DedupExit

SpecBadLog == InitBadLog /\ [][NextBadLog]_vars

(***************************************************************************)
(* One KeywordFilter::filter call, or one search of a backend whose result *)
(* the engine persists, on a bounded set of filters and keyword lists.     *)
(***************************************************************************)
\* the longest keyword list given to the filter
MaxKeywords == 3
\* the largest min_length of a filter
MaxMinLength == 3

KwXxx == <<"x", "x", "x">>
KwXXX == <<"X", "X", "X">>
KwAb == <<"a", "b">>
KwCats == <<"c", "a", "t", "s">>
KwCat == <<"c", "a", "t">>
KwCAT == <<"C", "a", "t">>

\* the keywords a document may hold
Keywords == {KwXxx, KwXXX, KwAb, KwCats, KwCAT}

KeywordLists == UNION { [1..k -> Keywords] : k \in 0..MaxKeywords }

\* the filters a service may be built with (main.rs builds MainFilter)
Filters ==
    {MainFilter} \cup
    { KeywordFilter(blocklist, allowlist, min_length) :
          blocklist \in {<<>>, <<KwXxx>>, <<KwXXX>>},
          allowlist \in {<<>>, <<KwCat>>, <<KwCAT>>},
          min_length \in 0..MaxMinLength }

\* position of a character in byte order
Byte(ch) == CHOOSE i \in 1..Len(Alphabet) : Alphabet[i] = ch

RECURSIVE Less(_, _)
\* String's Ord: u < v
Less(u, v) ==
    IF v = <<>> THEN FALSE
    ELSE IF u = <<>> THEN TRUE
    ELSE IF Byte(Head(u)) # Byte(Head(v)) THEN Byte(Head(u)) < Byte(Head(v))
    ELSE Less(Tail(u), Tail(v))

\* a list as extract_keywords leaves it: keywords.sort(); keywords.dedup()
SortedDeduped(keywords) ==
    \A i \in 1..(Len(keywords) - 1) : Less(keywords[i], keywords[i + 1])

\* the numbers of matches a TinEye page may show
MatchCounts == 0..3

\* format!("{} matches", match_count)
MatchesKeyword(match_count) ==
    <<Alphabet[match_count + 1], " ", "m", "a", "t", "c", "h", "e", "s">>

\* the picture searched for
SearchedFile == Filename(<<"aaaaaaaa", "x">>, "cat", "jpg")

InitFilterSpec ==
    /\ InitStore
    /\ total_pages = 1 /\ concurrency = 1 /\ runs = 0 /\ answers = FreeAnswers
    /\ InitEngine
    /\ InitDedup /\ downloads = 0
    /\ InitSearch(<<>>) /\ searchRuns = 0
    /\ InitFetch
    /\ InitTrip
    /\ InitEnrich
    /\ filter \in Filters
    /\ filtered = <<>>
    /\ filterPc \in {"filter", "bing", "tineye"}
    /\ \/ filterPc = "filter" /\ document \in { Document(k, 0) : k \in KeywordLists }
       \/ filterPc = "bing"
          /\ document \in { Document(k, 0) : k \in { l \in KeywordLists : SortedDeduped(l) } }
       \/ filterPc = "tineye" /\ document \in { Document(<<>>, n) : n \in MatchCounts }

filterFrame == <<configVars, storeVars, crawlVars, dedupVars, fetchVars, tripVars, enrichVars>>

\* ReverseSearchResult { filename, service, keywords, .. }
SearchResult(service, keywords) ==
    [filename |-> SearchedFile, service |-> service, keywords |-> keywords]

\* a call of KeywordFilter::filter
FilterCall ==
    /\ filterPc = "filter"
    /\ filtered' = Filter(filter, document.keywords)
    /\ filterPc' = "returned"
    /\ UNCHANGED <<filterFrame, searchVars, filter, document>>

\* BingService::search, then the engine's append_result
BingSearch ==
    /\ filterPc = "bing"
    /\ LET keywords == Filter(filter, document.keywords) IN
       results' = Append(results, SearchResult("bing", keywords))
    /\ filterPc' = "persisted"
    /\ UNCHANGED <<filterFrame, services, searchFiles, searchPc, searchProgress, pending, idx,
                   svc, searchRuns, loadedCompleted, attempted, interrupted,
                   filter, document, filtered>>

\* TinEyeService::search, then the engine's append_result
TinEyeSearch ==
    /\ filterPc = "tineye"
    /\ LET keywords == IF document.match_count > 0
                       THEN <<MatchesKeyword(document.match_count)>>
                       ELSE <<>> IN
       results' = Append(results, SearchResult("tineye", keywords))
    /\ filterPc' = "persisted"
    /\ UNCHANGED <<filterFrame, services, searchFiles, searchPc, searchProgress, pending, idx,
                   svc, searchRuns, loadedCompleted, attempted, interrupted,
                   filter, document, filtered>>

NextFilter ==
    \/ FilterCall
    \/ BingSearch
    \/ TinEyeSearch

SpecFilter == InitFilterSpec /\ [][NextFilter]_vars

(***************************************************************************)
(* One uninterrupted acquisition run from an empty store, against a site   *)
(* whose every page fetch, parse and download succeeds.                    *)
(***************************************************************************)
InitFullRun ==
    /\ InitStore
    /\ total_pages \in 1..(Budget - 1)
    /\ concurrency \in 1..(Budget - 1)
    /\ total_pages + concurrency <= Budget + 1
    /\ runs = 1
    /\ answers = [fixed |-> TRUE, failing |-> {}]
    /\ InitEngine
    /\ InitDedup /\ downloads = 0
    /\ InitSearch(<<>>) /\ searchRuns = 0
    /\ InitFetch
    /\ InitFilter
    /\ InitTrip
    /\ InitEnrich

NextFullRun ==
    \/ LoadProgress
    \/ SpawnTask
    \/ \E p \in Pages : Acquire(p)
    \/ \E p \in Pages : FetchAndParse(p)
    \/ \E p \in Pages : DownloadAndSave(p)
    \/ \E p \in Pages : AppendMetadata(p)
    \/ \E p \in Pages : FinishPage(p)
    \/ AwaitTask
    \/ SaveCreate
    \/ SaveWrite
    \/ SaveRename
    \/ Sleep

SpecFullRun == InitFullRun /\ [][NextFullRun]_vars

(***************************************************************************)
(* file_manager.rs: one save_progress(p) followed by one load_progress(),  *)
(* with progress.json as the JSON text serde_json writes and reads.        *)
(***************************************************************************)
\* the longest failed_pages of a saved Progress
MaxFailed == 2

DigitChars == <<"0", "1", "2", "3", "4", "5", "6", "7", "8", "9">>

RECURSIVE ToDecimal(_)
\* serde_json: an unsigned integer written as a JSON number
\* (faulty variant of the definition that follows it, for sensitivity runs)
ToDecimalLastDigit(n) == <<DigitChars[(n % 10) + 1]>>
ToDecimal(n) ==
    IF n < 10 THEN <<DigitChars[n + 1]>>
    ELSE Append(ToDecimal(n \div 10), DigitChars[(n % 10) + 1])

DigitValue(ch) == CHOOSE d \in 0..9 : DigitChars[d + 1] = ch

RECURSIVE FromDecimal(_)
\* serde_json: a JSON number read as an unsigned integer
FromDecimal(digits) ==
    IF Len(digits) = 1 THEN DigitValue(digits[1])
    ELSE 10 * FromDecimal(SubSeq(digits, 1, Len(digits) - 1)) + DigitValue(digits[Len(digits)])

\* serde_json::to_writer_pretty(file, progress): the members of the object
to_json(p) ==
    << <<"last_completed_page", ToDecimal(p.last_completed_page)>>,
       <<"total_images_downloaded", ToDecimal(p.total_images_downloaded)>>,
       <<"failed_pages", [i \in 1..Len(p.failed_pages) |-> ToDecimal(p.failed_pages[i])]>> >>

\* the value of member key of a JSON object
Member(text, key) == text[CHOOSE i \in 1..Len(text) : text[i][1] = key][2]

\* serde_json::from_str::<Progress>(&content)
from_json(text) ==
    [last_completed_page |-> FromDecimal(Member(text, "last_completed_page")),
     total_images_downloaded |-> FromDecimal(Member(text, "total_images_downloaded")),
     failed_pages |-> LET pages == Member(text, "failed_pages") IN
                      [i \in 1..Len(pages) |-> FromDecimal(pages[i])]]

\* FileManager::load_progress on a file holding JSON text
load_progress_text(file) ==
    CASE file.st = "absent" -> Loaded(ProgressNew)
      [] file.st = "full" -> Loaded(from_json(file.val))
      [] OTHER -> LoadError

\* the numbers a saved Progress may hold
PageNumbers == {0, 7, 10, 305}
ImageCounts == {0, 9, 40, 1234}
FailedLists == UNION { [1..k -> {3, 12}] : k \in 0..MaxFailed }

Progresses ==
    [last_completed_page : PageNumbers, total_images_downloaded : ImageCounts,
     failed_pages : FailedLists]

InitTripSpec ==
    /\ metaFiles = [f \in {MetadataPath, MetadataTempPath, MetadataBackupPath} |-> Absent]
    /\ images = <<>>
    /\ searchFiles = [f \in {SearchProgressPath, SearchTempPath} |-> Absent]
    /\ results = <<>>
    /\ progressFiles \in
           { [f \in {ProgressPath, ProgressTempPath} |->
                 IF f = ProgressPath THEN old ELSE Absent] :
             old \in {Absent, Full(to_json(Update(ProgressNew, 1, 1)))} }
    /\ total_pages = 1 /\ concurrency = 1 /\ runs = 0 /\ answers = FreeAnswers
    /\ InitEngine
    /\ InitDedup /\ downloads = 0
    /\ InitSearch(<<>>) /\ searchRuns = 0
    /\ InitFetch
    /\ InitFilter
    /\ InitEnrich
    /\ saved \in Progresses
    /\ reloaded = LoadError
    /\ tripPc = "save"

tripFrame == <<configVars, storeVars, crawlMem, crawlHist, dedupVars, searchVars, fetchVars,
               filterVars, enrichVars>>

\* FileManager::save_progress(&saved): File::create may fail (Err, nothing
\* renamed); otherwise the text is written to the temp file and renamed
TripSave ==
    /\ tripPc = "save"
    /\ \E created \in BOOLEAN :
           IF created
           THEN /\ progressFiles' =
                       Rename([progressFiles EXCEPT ![ProgressTempPath] = Full(to_json(saved))],
                              ProgressTempPath, ProgressPath)
                /\ tripPc' = "saved"
           ELSE /\ tripPc' = "save_failed"
                /\ UNCHANGED progressFiles
    /\ UNCHANGED <<tripFrame, saved, reloaded>>

\* FileManager::load_progress()
TripLoad ==
    /\ tripPc = "saved"
    /\ reloaded' = load_progress_text(progressFiles[ProgressPath])
    /\ tripPc' = "loaded"
    /\ UNCHANGED <<tripFrame, progressFiles, saved>>

NextTrip ==
    \/ TripSave
    \/ TripLoad

SpecTrip == InitTripSpec /\ [][NextTrip]_vars

(***************************************************************************)
(* reverse_search/engine.rs: ReverseSearchEngine::run step by step (the    *)
(* permit, the call, the delay), on the store an acquisition left, when    *)
(* append_result and save_progress may fail.                               *)
(***************************************************************************)
\* the largest concurrency given to ReverseSearchEngine::new
MaxGate == 2

InitEnrichSpec ==
    /\ total_pages \in 1..Budget /\ runs \in 1..Budget
    /\ total_pages + runs <= Budget - 3
    /\ concurrency = 1
    /\ answers = FreeAnswers
    /\ InitEngine
    /\ LeftStore(total_pages, Full(LeftProgress(total_pages)), Full(LeftLog(total_pages)))
    /\ InitDedup /\ downloads = 0
    /\ InitSearch(<<>>) /\ searchRuns = 0
    /\ InitFetch
    /\ InitFilter
    /\ InitTrip
    /\ capacity \in 1..MaxGate
    /\ gate = capacity
    /\ held = 0
    /\ calls = <<>>
    /\ aborted = NoItem

enrichFrame == <<configVars, storeVars, crawlVars, dedupVars, fetchVars, filterVars, tripVars>>

\* the item of the current iteration of the outer loop, and whether an earlier
\* item of pending has the same filename
CurrentItem ==
    [run |-> searchRuns, filename |-> pending[idx],
     repeated |-> \E k \in 1..(idx - 1) : pending[k] = pending[idx]]

\* the ? after append_result and save_progress: a failed write is returned
\* (faulty variant of the definition that follows it, for sensitivity runs)
WriteErrorIgnored(written) == FALSE
WriteErrorReturned(written) == ~written

\* _permit goes out of scope at the end of the iteration of the inner loop
\* (faulty variant of the definition that follows it, for sensitivity runs)
PermitKept(h) == h
PermitDropped(h) == h - 1

\* run() returns Err: its locals, the permit and the semaphore are dropped
EnrichFail ==
    /\ SearchReset("failed")
    /\ held' = 0
    /\ gate' = capacity

\* let _permit = semaphore.acquire().await?; then service.search(metadata) starts
EnrichAcquire ==
    /\ searchPc = "search"
    /\ gate > 0
    /\ gate' = gate - 1
    /\ held' = held + 1
    /\ calls' = Append(calls, <<searchRuns, pending[idx], services[svc]>>)
    /\ searchPc' = "call"
    /\ UNCHANGED <<enrichFrame, searchFiles, results, services, searchProgress, pending, idx,
                   svc, searchRuns, loadedCompleted, attempted, interrupted, capacity,
                   aborted>>

\* service.search(metadata) returns: Ok(result) => append_result(&result)?,
\* which may fail; Err(e) => eprintln
EnrichReturn ==
    /\ searchPc = "call"
    /\ \E ok \in SearchOutcomes, written \in BOOLEAN :
          /\ ok \/ written
          /\ results' = IF ok /\ written
                        THEN Append(results, [filename |-> pending[idx],
                                              service |-> services[svc],
                                              searched_at |-> searchRuns])
                        ELSE results
          /\ aborted' = IF written THEN aborted ELSE CurrentItem
          /\ IF WriteErrorReturned(written)
             THEN EnrichFail
             ELSE /\ attempted' = attempted \cup {<<pending[idx], services[svc]>>}
                  /\ searchPc' = "delay"
                  /\ UNCHANGED <<services, searchProgress, pending, idx, svc,
                                 loadedCompleted, gate, held>>
    /\ UNCHANGED <<enrichFrame, searchFiles, searchRuns, interrupted, capacity, calls>>

\* tokio::time::sleep(suggested_delay_ms) is over and the iteration ends: the
\* next service, or the end of the inner loop
EnrichDelay ==
    /\ searchPc = "delay"
    /\ held' = PermitDropped(held)
    /\ gate' = gate + (held - held')
    /\ IF ServicesDone(svc, services)
       THEN searchPc' = "completed" /\ svc' = 1
       ELSE searchPc' = "search" /\ svc' = svc + 1
    /\ UNCHANGED <<enrichFrame, searchFiles, results, services, searchProgress, pending, idx,
                   searchRuns, loadedCompleted, attempted, interrupted, capacity, calls,
                   aborted>>

\* save_progress(&progress)?: fs::write(&temp_path, json) fails, leaving the
\* temp file as it is, or fs::rename fails, leaving both files as they are
EnrichSaveFails ==
    /\ searchPc \in {"save_write", "save_rename"}
    /\ aborted' = CurrentItem
    /\ IF WriteErrorReturned(FALSE)
       THEN EnrichFail
       ELSE \* the error is dropped: the loop goes on with the next item
            /\ IF idx = Len(pending)
               THEN SearchReset("done")
               ELSE /\ idx' = idx + 1
                    /\ searchPc' = "search"
                    /\ UNCHANGED <<services, searchProgress, pending, svc, loadedCompleted,
                                   attempted>>
            /\ UNCHANGED <<gate, held>>
    /\ UNCHANGED <<enrichFrame, searchFiles, results, searchRuns, interrupted, capacity,
                   calls>>

NextEnrich ==
    \/ \E names \in ServiceChoices : SearchStart(names)
    \/ EnrichAcquire
    \/ EnrichReturn
    \/ EnrichDelay
    \/ AddCompleted
    \/ SearchSaveWrite
    \/ SearchSaveRename
    \/ EnrichSaveFails

SpecEnrich == InitEnrichSpec /\ [][NextEnrich]_vars

(***************************************************************************)
(* Acquisition runs that are never killed, against a site whose calls all  *)
(* return, with success or with failure.  The tokio runtime polls every    *)
(* task that can make progress: the loop of run() and each spawned page    *)
(* task take their next step when it stays possible.  A page task that     *)
(* asks for FileManager's lock gets it although other tasks take and        *)
(* release it meanwhile: tokio::sync::Mutex queues its waiters in order.   *)
(***************************************************************************)
InitLive ==
    /\ InitStore
    /\ InitCrawl(Budget - 1)
    /\ InitDedup /\ downloads = 0
    /\ InitSearch(<<>>) /\ searchRuns = 0
    /\ InitFetch
    /\ InitFilter
    /\ InitTrip
    /\ InitEnrich

\* the steps of the page task of page p, when p is a page of the site
TaskStep(p) ==
    /\ p \in Pages
    /\ \/ Acquire(p)
       \/ FetchAndParse(p)
       \/ AppendMetadata(p)
       \/ FinishPage(p)

\* the step of page p that needs the store lock
LockStep(p) == p \in Pages /\ DownloadAndSave(p)

\* the steps of the loop of run()
LoopStep ==
    \/ SpawnTask
    \/ AwaitTask
    \/ SaveCreate
    \/ SaveWrite
    \/ SaveRename
    \/ Sleep

Scheduling ==
    /\ WF_vars(LoopStep)
    /\ \A p \in 1..Budget : WF_vars(TaskStep(p)) /\ SF_vars(LockStep(p))

SpecLive == InitLive /\ [][NextFullRun]_vars /\ Scheduling
(***************************************************************************)
(* Claims about the acquisition engine (checked under Spec).               *)
(***************************************************************************)
RunActive == runPc \notin {"idle", "failed"}

\* a page task that is fetching, parsing or downloading
TaskActive(p) == task[p].pc \in {"fetch", "download"}

\* C1: at every moment at most `concurrency` page tasks are fetching, parsing or
\* downloading; each such task holds one permit of the semaphore from before its
\* fetch until its last download is over, and the permits held plus the permits
\* available are the `concurrency` permits the semaphore was created with.
C1_ConcurrencyCap ==
    RunActive =>
        /\ Cardinality({p \in Pages : TaskActive(p)}) <= concurrency
        /\ \A p \in Pages : TaskActive(p) <=> task[p].permit
        /\ Cardinality({p \in Pages : task[p].permit}) + semaphore = concurrency

C1_Witness ==
    /\ concurrency = 2
    /\ semaphore = 0
    /\ \E p, q \in Pages :
          /\ p # q
          /\ task[p].pc = "download" /\ task[p].idx = 2
          /\ task[q].pc = "fetch"

\* C2: every page up to the persisted last_completed_page has been processed
\* successfully (fetched and parsed without error) in this or an earlier run.
C2_NoGapBelowCheckpoint ==
    LET file == progressFiles[ProgressPath] IN
    file.st = "full" =>
        \A p \in 1..file.val.last_completed_page : p \in succeeded

\* C3: a run that loaded a checkpoint with last_completed_page = L launches,
\* fetches and downloads only for pages above L, and page L + 1 is the first
\* page it launches.
C3_NoReprocessing ==
    RunActive =>
        /\ \A p \in launched \cup fetched : p > loadedLast
        /\ \A p \in Pages : task[p].pc # "none" => p > loadedLast
        /\ launched # {} => loadedLast + 1 \in launched

C3_Witness ==
    /\ RunActive
    /\ loadedLast >= 1
    /\ \E p \in Pages : p = loadedLast + 1 /\ task[p].pc = "download"

\* C13: a page whose fetch or parse fails is the only thing recorded as failed:
\* a run that got past the load never ends in error, and when it is done every
\* page after the loaded checkpoint has been processed, the pages newly in
\* failed_pages are exactly those that failed in this run, and the checkpoint
\* on disk is the one in memory (also after every batch, failed pages or not).
C13_PageFailureScoped ==
    /\ runPc = "failed" => launched = {}
    /\ (runPc \in {"sleep", "done"} /\ launched # {}) =>
          progressFiles[ProgressPath] = Full(progress)
    /\ runPc = "done" =>
          /\ \A p \in Pages : p > loadedLast => p \in launched /\ p \in fetched
          /\ \A p \in failed : Contains(progress.failed_pages, p)
          /\ \A p \in Pages :
                Contains(progress.failed_pages, p) =>
                    p \in failed \/ Contains(atLoad.failed_pages, p)

C13_Witness ==
    /\ runPc = "done"
    /\ \E p \in failed, q \in launched \ failed :
          /\ q >= p + concurrency
          /\ ~Contains(atLoad.failed_pages, p)
          /\ \E i \in 1..Len(load_all_metadata(metaFiles[MetadataPath])) :
                load_all_metadata(metaFiles[MetadataPath])[i].page_number = q

Log == load_all_metadata(metaFiles[MetadataPath])
\* the records that this run appended for page p
RecordsOfRun(p) ==
    Cardinality({ i \in (atLoad.records + 1)..Len(Log) : Log[i].page_number = p })
AllMerged == runPc \in {"save_create", "save_write", "save_rename", "sleep", "done"}

\* C14: a failed download does not fail its page: a page whose fetch and parse
\* succeeded is never recorded as failed by this run, whatever its downloads
\* did; its task reports exactly the number of records (and blobs) it
\* persisted; and once the tasks are merged total_images_downloaded has grown
\* by exactly the number of records persisted by the run.
C14_DownloadFailureSkipped ==
    /\ \A p \in Pages :
          /\ task[p].pc = "download" => p \notin failed
          /\ (task[p].pc = "finished" /\ task[p].ok) =>
                /\ p \notin failed
                /\ task[p].count = RecordsOfRun(p)
    /\ (RunActive /\ AllMerged) =>
          /\ progress.total_images_downloaded =
                atLoad.total + (Len(Log) - atLoad.records)
          /\ \A p \in launched \ failed :
                /\ Contains(progress.failed_pages, p) => Contains(atLoad.failed_pages, p)
                /\ progress.last_completed_page >= p
          /\ \A i \in 1..Len(Log) : Log[i].filename \in DOMAIN images

\* page 1 lists two resources: the first download failed, the second was stored
C14_Witness ==
    /\ runPc = "done"
    /\ atLoad.records = 0
    /\ 1 \in launched \ failed
    /\ RecordsOfRun(1) = 1
    /\ Log[1].description = "dog"
    /\ progress.total_images_downloaded = 1
    /\ progress.last_completed_page = 1

\* C15: in every persisted checkpoint no page is both completed (at most
\* last_completed_page) and in failed_pages.
C15_CompletedNotFailed ==
    LET file == progressFiles[ProgressPath] IN
    file.st = "full" =>
        \A p \in 1..file.val.last_completed_page : ~Contains(file.val.failed_pages, p)

(***************************************************************************)
(* Kill and restart (checked under SpecReplay)                             *)
(***************************************************************************)
\* what one uninterrupted run stores from a site that answers as `answers` says
ExpectedFiles ==
    { ImageMetadata(SiteResources(u[1])[u[2]], u[1]).filename :
        u \in { v \in Units : /\ v[2] >= 1
                               /\ v \notin answers.failing
                               /\ <<v[1], 0>> \notin answers.failing } }

\* C16: when a run completes, after any number of kills and restarts, every
\* page after the checkpoint it loaded has been processed again, and the set
\* of blobs and the set of filenames in the log are those one uninterrupted
\* run stores.
C16_RestartEquivalent ==
    runPc = "done" =>
        /\ \A p \in Pages : p > loadedLast => p \in launched /\ p \in fetched
        /\ DOMAIN images = ExpectedFiles
        /\ { Log[i].filename : i \in 1..Len(Log) } = ExpectedFiles

\* a run killed after a checkpoint and after the downloads of a later page,
\* then restarted: that page's record is in the log twice
C16_Witness ==
    /\ runPc = "done"
    /\ loadedLast >= 1
    /\ answers.failing # {}
    /\ ExpectedFiles # {}
    /\ \E i, j \in 1..Len(Log) : i < j /\ Log[i] = Log[j]

RECURSIVE ExtractedUpTo(_)
\* the number of resources the pages 1..n hold
ExtractedUpTo(n) == IF n = 0 THEN 0 ELSE ExtractedUpTo(n - 1) + Len(SiteResources(n))

\* the run is over: checkpoint at total_pages with no failed page, and one
\* record in the log per resource of every page
FullRunStored ==
    /\ progressFiles[ProgressPath].st = "full"
    /\ progressFiles[ProgressPath].val.last_completed_page = total_pages
    /\ progressFiles[ProgressPath].val.failed_pages = <<>>
    /\ metaFiles[MetadataPath].st = "full"
    /\ Len(Log) = ExtractedUpTo(total_pages)
    /\ \A p \in Pages : \A j \in 1..Len(SiteResources(p)) :
           Cardinality({ i \in 1..Len(Log) :
                           Log[i] = ImageMetadata(SiteResources(p)[j], p) }) = 1

\* C29 (as stated): after one run from an empty store in which every page
\* fetch, parse and download succeeds, the persisted checkpoint is at
\* total_pages with no failed page, the log has exactly one record per
\* extracted resource, and records of distinct bytes have distinct filenames.
C29_FullRunDistinctBytes ==
    runPc = "done" =>
        /\ FullRunStored
        /\ \A i, j \in 1..Len(Log) :
               Log[i].content_hash # Log[j].content_hash => Log[i].filename # Log[j].filename

\* C29 (amended): the same, with distinct filenames for records whose content
\* hashes differ in their first 8 hex characters.
C29_FullRunDistinctPrefixes ==
    runPc = "done" =>
        /\ FullRunStored
        /\ \A i, j \in 1..Len(Log) :
               HashPrefix(Log[i].content_hash) # HashPrefix(Log[j].content_hash)
                   => Log[i].filename # Log[j].filename

\* a run of 3 pages, two at a time, that stored records of two different
\* hash prefixes
C29_Witness ==
    /\ runPc = "done"
    /\ total_pages = 3
    /\ concurrency = 2
    /\ Len(Log) = 4
    /\ \E i, j \in 1..Len(Log) :
           HashPrefix(Log[i].content_hash) # HashPrefix(Log[j].content_hash)

SaveSteps == {"save_create", "save_write", "save_rename"}
NoPageTask == \A p \in Pages : task[p].pc = "none"

\* C32: the checkpoint files are written only by the save that follows the
\* merge of the last task of a batch, when no page task exists; every merged
\* batch is followed by that save and by nothing else; and a page task of a
\* later batch starts only once the merged checkpoint has been persisted.
C32_SavedOncePerBatch ==
    [][ /\ progressFiles' # progressFiles =>
              runPc \in SaveSteps /\ NoPageTask /\ task' = task
        /\ (runPc' = "save_create" /\ runPc # "save_create") =>
              /\ runPc = "await" /\ nextPage = BatchEnd
              /\ \A p \in Pages : task'[p].pc = "none"
        /\ (runPc = "await" /\ runPc' \notin {"await", "idle"}) => runPc' = "save_create"
        /\ (runPc \in SaveSteps /\ runPc' \notin SaveSteps /\ runPc' # "idle") =>
              /\ runPc = "save_rename"
              /\ progressFiles'[ProgressPath] = Full(progress')
        /\ (\E p \in Pages : task[p].pc = "none" /\ task'[p].pc # "none") =>
              /\ runPc = "spawn"
              /\ batch_start > start_page => progressFiles[ProgressPath] = Full(progress)
      ]_vars

\* the second batch of a run of two pages at a time is being launched, the
\* first batch's checkpoint being on disk
C32_Witness ==
    /\ runPc = "spawn"
    /\ concurrency = 2
    /\ batch_start = start_page + 2
    /\ progressFiles[ProgressPath] = Full(progress)
    /\ progress.last_completed_page = 2

\* C33: images/ is written only by a page task that takes the free store lock
\* in the same step, and the log only by the holder of the lock, appending the
\* record of the resource whose blob it has just written and releasing the
\* lock; nothing is written to either while another task holds the lock. The
\* in-memory checkpoint and its files are changed only by the run's own flow
\* (load, merge of an awaited task, save), never by a step of a page task.
C33_OneWriter ==
    [][ /\ images' # images =>
              /\ fmLock = 0 /\ fmLock' \in Pages
              /\ task[fmLock'].pc = "download"
              /\ metaFiles' = metaFiles
        /\ metaFiles' # metaFiles =>
              /\ fmLock \in Pages /\ fmLock' = 0
              /\ images' = images
              /\ LET m == ImageMetadata(SiteResources(fmLock)[task[fmLock].idx], fmLock) IN
                 /\ load_all_metadata(metaFiles'[MetadataPath])
                        = Append(load_all_metadata(metaFiles[MetadataPath]), m)
                 /\ m.filename \in DOMAIN images
        /\ (fmLock # 0 /\ runPc' # "idle") => fmLock' \in {fmLock, 0}
        /\ progressFiles' # progressFiles => runPc \in SaveSteps /\ task' = task
        /\ progress' # progress =>
              \/ runPc \in {"idle", "done", "failed"}
              \/ runPc' = "idle"
              \/ /\ runPc = "await"
                 /\ \A p \in Pages \ {nextPage} : task'[p] = task[p]
      ]_vars

\* two page tasks are downloading when one of them, holding the lock, has
\* written its blob and not yet appended its record
C33_Witness ==
    /\ total_pages >= 2
    /\ fmLock = 1
    /\ task[1].pc = "download"
    /\ task[2].pc = "download"
    /\ task[2].idx <= task[2].todo
    /\ Len(load_all_metadata(metaFiles[MetadataPath])) < Cardinality(DOMAIN images)

RECURSIVE Greatest(_)
Greatest(S) ==
    LET x == CHOOSE y \in S : TRUE IN
    IF S = {x} THEN x
    ELSE LET g == Greatest(S \ {x}) IN IF x > g THEN x ELSE g

RECURSIVE Increasing(_)
\* the elements of a set of pages in increasing order
Increasing(S) ==
    IF S = {} THEN <<>>
    ELSE LET g == Greatest(S) IN Append(Increasing(S \ {g}), g)

\* C35: once the tasks of a batch are merged, the checkpoint in memory, which
\* is the one then persisted, is determined by the loaded checkpoint and by
\* which pages succeeded and how many records they stored, whatever the order
\* in which the tasks ran and finished: last_completed_page is the greatest
\* successful page (the loaded one if none succeeded), the total is the loaded
\* total plus the records appended, and failed_pages is the loaded list
\* followed by the new failed pages in increasing order.
C35_MergeOrderIndependent ==
    /\ (RunActive /\ AllMerged) =>
          /\ progress.last_completed_page = Greatest({loadedLast} \cup (launched \ failed))
          /\ progress.total_images_downloaded = atLoad.total + (Len(Log) - atLoad.records)
          /\ progress.failed_pages =
                atLoad.failed_pages
                    \o Increasing({ p \in failed : ~Contains(atLoad.failed_pages, p) })
    /\ (runPc \in {"sleep", "done"} /\ launched # {}) =>
          progressFiles[ProgressPath] = Full(progress)

\* a batch of two pages is merged: page 1 succeeded with one record, page 2
\* failed
C35_Witness ==
    /\ runPc = "save_create"
    /\ concurrency >= 2
    /\ loadedLast = 0
    /\ failed = {2}
    /\ launched = {1, 2}
    /\ progress.last_completed_page = 1
    /\ progress.failed_pages = <<2>>
    /\ progress.total_images_downloaded >= 1

\* the blobs in images/ that no record of the log names
Unrecorded == { f \in DOMAIN images : \A i \in 1..Len(Log) : Log[i].filename # f }

\* C36: at every moment of acquisition, and after a crash at any point of it,
\* every record in metadata.jsonl names a blob that is in images/; a record
\* is appended only by the task that has just written its blob and still
\* holds the store lock.
C36_RecordAfterBlob ==
    /\ \A i \in 1..Len(Log) : Log[i].filename \in DOMAIN images
    /\ \A p \in Pages :
          (fmLock = p) =>
             /\ task[p].pc = "download"
             /\ ImageMetadata(SiteResources(p)[task[p].idx], p).filename \in DOMAIN images

\* the run was killed between save_image and append_metadata: a blob is in
\* images/ that no record names, and the log holds records
C36_Witness ==
    /\ runPc = "idle"
    /\ runs >= 1
    /\ Len(Log) >= 1
    /\ Unrecorded # {}

\* the pages this run has to process
RunRange == { p \in Pages : p >= start_page }

\* C37: a run that is not killed, whose network calls all return, terminates;
\* by then every page from start_page to total_pages has been launched, once,
\* and merged, once, as a success or as a failure, every permit is back and
\* the store lock is free; no page task waits forever for a permit or for
\* the store lock.
C37_RunTerminates ==
    /\ (runPc \notin {"idle", "done", "failed"}) ~> (runPc = "done")
    /\ \A p \in 1..Budget :
          (p \in Pages /\ task[p].pc \in {"waiting", "fetch", "download"})
             ~> (p \in Pages /\ task[p].pc = "finished")
    /\ [](runPc = "done" =>
             /\ launched = RunRange
             /\ failed \subseteq launched
             /\ \A p \in Pages : task[p] = NoTask
             /\ semaphore = concurrency
             /\ fmLock = 0
             /\ progress.last_completed_page = Greatest({loadedLast} \cup (launched \ failed))
             /\ progress.total_images_downloaded = atLoad.total + (Len(Log) - atLoad.records)
             /\ progress.failed_pages =
                   atLoad.failed_pages
                       \o Increasing({ p \in failed : ~Contains(atLoad.failed_pages, p) }))
    /\ [][\A p \in Pages :
             /\ (task[p].pc = "none" /\ task'[p].pc # "none") =>
                   /\ runPc = "spawn"
                   /\ p = nextPage
                   /\ p \notin launched
                   /\ p \in RunRange
                   /\ task'[p].pc = "waiting"
             /\ (task[p].pc # "none" /\ task'[p].pc = "none") =>
                   /\ runPc = "await"
                   /\ task[p].pc = "finished"
                   /\ p = nextPage
                   /\ p \in launched
                   /\ (runPc' = "await" => nextPage' = p + 1)
                   /\ (runPc' # "await" => p = BatchEnd)]_vars

\* a run over three pages with fewer permits than pages is done: the third
\* page was launched in a later batch than the first, and one page failed
C37_Witness ==
    /\ runPc = "done"
    /\ total_pages = 3
    /\ concurrency = 1
    /\ launched = {1, 2, 3}
    /\ failed = {2}

\* the acquisition checkpoint on disk
Persisted == progressFiles[ProgressPath]

\* C38: from an empty store, with runs that are never killed and no
\* deduplication, every checkpoint that save_progress puts in progress.json
\* carries in total_images_downloaded the number of records metadata.jsonl
\* holds at that moment, and never less than the checkpoint it replaces;
\* between runs and between batches the file's total is the number of records.
C38_TotalCountsRecords ==
    /\ [](Persisted.st \in {"absent", "full"})
    /\ []((Persisted.st = "full" /\ runPc \in {"idle", "done", "sleep"}) =>
             Persisted.val.total_images_downloaded = Len(Log))
    /\ []((Persisted.st = "full") => Persisted.val.total_images_downloaded <= Len(Log))
    /\ [][Persisted' # Persisted =>
             /\ runPc = "save_rename"
             /\ Persisted'.st = "full"
             /\ Persisted'.val.total_images_downloaded = Len(Log)
             /\ Len(Log') = Len(Log)
             /\ Persisted.st = "full" =>
                   Persisted'.val.total_images_downloaded
                      >= Persisted.val.total_images_downloaded]_vars

\* a second run has replaced the checkpoint of the first: the first stored
\* records and so did the second
C38_Witness ==
    /\ runPc = "done"
    /\ atLoad.total >= 1
    /\ Persisted.st = "full"
    /\ Persisted.val.total_images_downloaded > atLoad.total
    /\ Persisted.val.total_images_downloaded = Len(Log)

(***************************************************************************)
(* Deduplication (checked under SpecDedup)                                 *)
(***************************************************************************)
PreLog == load_all_metadata(preMeta[MetadataPath])
PostLog == load_all_metadata(metaFiles[MetadataPath])
RemovalDone == dedupPc = "done" /\ ~dry_run
RecordsNamed(log, filename) == { i \in 1..Len(log) : log[i].filename = filename }
RecordsOfHash(log, hash) == { i \in 1..Len(log) : log[i].content_hash = hash }

\* C5: after a removal that is not a dry run, the first filename of every
\* cluster still has its blob and a record in the log, and every content hash
\* of the log has exactly one record left.
C5_FirstRetained ==
    RemovalDone =>
        /\ \A g \in 1..Len(result.duplicates) :
              LET first == result.duplicates[g].files[1] IN
              /\ first \in DOMAIN preImages => first \in DOMAIN images
              /\ RecordsNamed(PostLog, first) # {}
        /\ \A h \in HashesOf(PreLog) : Cardinality(RecordsOfHash(PostLog, h)) = 1

\* the filenames the removal marks: all but the first of every cluster
MarkedFilenames ==
    UNION { { result.duplicates[g].files[i] : i \in 2..Len(result.duplicates[g].files) } :
            g \in 1..Len(result.duplicates) }

\* C6: after a removal that is not a dry run, with at least one cluster, the
\* log holds exactly the pre-removal records whose filename was not marked,
\* in their original order.
C6_LogIsFilteredPreLog ==
    (RemovalDone /\ Len(result.duplicates) >= 1) =>
        /\ metaFiles[MetadataPath].st = "full"
        /\ PostLog = SelectSeq(PreLog, LAMBDA m : m.filename \notin MarkedFilenames)

C6_Witness ==
    /\ RemovalDone
    /\ Len(result.duplicates) >= 1
    /\ Len(PreLog) = 3
    /\ Len(PostLog) = 2
    /\ PostLog[1].content_hash # PostLog[2].content_hash

StoreTouched == images # preImages \/ metaFiles[MetadataPath] # preMeta[MetadataPath]

\* C7: in a removal that is not a dry run the backup is taken before any blob
\* is deleted and before the log is rewritten; when the removal returns, the
\* backup file equals the pre-removal log; if the backup fails, no blob is
\* deleted and the log is unchanged.
C7_BackupBeforeRemoval ==
    /\ (dedupPc \in {"scan", "update", "rewrite_write", "rewrite_rename", "done"}
          /\ ~dry_run /\ StoreTouched)
        => metaFiles[MetadataBackupPath] = preMeta[MetadataPath]
    /\ RemovalDone => metaFiles[MetadataBackupPath] = preMeta[MetadataPath]
    /\ dedupPc = "backup_failed" => ~StoreTouched

C7_Witness ==
    /\ RemovalDone
    /\ images # preImages
    /\ PostLog # PreLog
    /\ preMeta[MetadataBackupPath].st = "full"
    /\ preMeta[MetadataBackupPath] # preMeta[MetadataPath]
    /\ metaFiles[MetadataBackupPath] = preMeta[MetadataPath]

\* C8: a dry-run removal leaves the store unchanged: no blob is deleted, the
\* log is not rewritten and no backup file is created or overwritten.
C8_DryRunLeavesStore ==
    (dry_run /\ dedupPc \in {"scan", "update", "rewrite_write", "rewrite_rename", "done"})
        => images = preImages /\ metaFiles = preMeta

C8_Witness ==
    /\ dry_run
    /\ dedupPc = "done"
    /\ files_to_remove # {}
    /\ metaFiles[MetadataBackupPath] # metaFiles[MetadataPath]

\* the positions in the log of the records of a hash, and the k-th of them
PositionsOf(hash) == { i \in 1..Len(Log) : Log[i].content_hash = hash }
KthPosition(hash, k) ==
    CHOOSE i \in PositionsOf(hash) : Cardinality({ j \in PositionsOf(hash) : j <= i }) = k
LogHashes == { Log[i].content_hash : i \in 1..Len(Log) }

\* C19: analyze() returns total_images = number of records, unique_images =
\* number of distinct content hashes, exactly one cluster for each hash carried
\* by more than one record and none for the others, each cluster listing all
\* the filenames of its hash in log order, and duplicate_images = the sum over
\* the clusters of (size - 1), which is records minus distinct hashes.
C19_AnalyzeIsExact ==
    dedupPc = "analyzed" =>
        /\ result.total_images = Len(Log)
        /\ result.unique_images = Cardinality(LogHashes)
        /\ result.duplicate_groups = Len(result.duplicates)
        /\ \A h \in LogHashes :
              Cardinality({ g \in 1..Len(result.duplicates) :
                              result.duplicates[g].content_hash = h })
                = IF Cardinality(PositionsOf(h)) > 1 THEN 1 ELSE 0
        /\ \A g \in 1..Len(result.duplicates) :
              LET c == result.duplicates[g] IN
              /\ c.content_hash \in LogHashes
              /\ Len(c.files) = Cardinality(PositionsOf(c.content_hash))
              /\ \A k \in 1..Len(c.files) :
                    c.files[k] = Log[KthPosition(c.content_hash, k)].filename
        /\ result.duplicate_images = Len(Log) - Cardinality(LogHashes)

\* three records: two of one hash under different filenames, one of another
C19_Witness ==
    /\ dedupPc = "analyzed"
    /\ Len(Log) = 3
    /\ result.unique_images = 2
    /\ Len(result.duplicates) = 1
    /\ result.duplicates[1].files[1] # result.duplicates[1].files[2]
    /\ Log[1].content_hash # Log[2].content_hash

BlobsGone == DOMAIN preImages \ DOMAIN images

\* C20: in a removal that is not a dry run a failed blob deletion stops
\* nothing: at the end every marked filename has been reached, removed_count
\* is the number of blobs actually deleted, only marked blobs are gone, and the
\* rewritten log has no record of any marked filename, the ones whose blob
\* could not be deleted included.
C20_FailedDeletionSkipped ==
    RemovalDone =>
        /\ files_to_remove = MarkedFilenames
        /\ removed_count = Cardinality(BlobsGone)
        /\ DOMAIN images \subseteq DOMAIN preImages
        /\ BlobsGone \subseteq MarkedFilenames
        /\ \A i \in 1..Len(PostLog) : PostLog[i].filename \notin MarkedFilenames

\* the deletion of the second file of the cluster failed, the third was deleted
C20_Witness ==
    /\ RemovalDone
    /\ Len(result.duplicates) = 1
    /\ Len(result.duplicates[1].files) = 3
    /\ result.duplicates[1].files[2] \in DOMAIN images
    /\ result.duplicates[1].files[3] \in BlobsGone
    /\ removed_count = 1
    /\ Len(PreLog) = 3

\* the log that the removal writes: the pre-removal records whose filename is
\* not marked
FilteredLog == SelectSeq(PreLog, LAMBDA m : m.filename \notin MarkedFilenames)
InRemoval == dedupPc \in {"scan", "update", "rewrite_write", "rewrite_rename", "done",
                          "killed"}

\* C21: wherever the process is killed during a removal that is not a dry run,
\* metadata.jsonl is the complete pre-removal log or the complete filtered
\* log, never a partly written one; the filtered log is written in full to the
\* temporary file before it is renamed over metadata.jsonl.
C21_LogWholeUnderKill ==
    (InRemoval /\ ~dry_run) =>
        /\ metaFiles[MetadataPath] \in {preMeta[MetadataPath], Full(FilteredLog)}
        /\ dedupPc = "rewrite_rename" =>
              /\ metaFiles[MetadataTempPath] = Full(FilteredLog)
              /\ metaFiles[MetadataPath] = preMeta[MetadataPath]

\* killed while the temporary file was being written, after a blob was deleted
C21_Witness ==
    /\ dedupPc = "killed"
    /\ ~dry_run
    /\ metaFiles[MetadataTempPath].st = "partial"
    /\ images # preImages
    /\ Len(PreLog) = 3
    /\ metaFiles[MetadataPath] = preMeta[MetadataPath]
    /\ Len(FilteredLog) < Len(PreLog)

\* the records of the log when remove_duplicates was called
LogBefore == load_all_metadata(preMeta[MetadataPath])

\* C39: when remove_duplicates(result, false) has completed, no hash has two
\* records in the log, so analyze on that log reports no duplicate cluster;
\* and a removal that follows an analysis of a log without duplicate clusters
\* deletes no blob and leaves the records of the log as they were.
C39_RemovalIdempotent ==
    /\ [](dedupPc = "done" /\ ~dry_run => Clusters(Log) = {})
    /\ [](dedupPc = "analyzed" /\ Clusters(Log) = {} =>
             /\ result.duplicate_groups = 0
             /\ result.duplicate_images = 0
             /\ result.duplicates = <<>>)
    /\ [](dedupPc = "done" /\ ~dry_run /\ Clusters(LogBefore) = {} =>
             /\ images = preImages
             /\ Log = LogBefore)
    /\ [][(dedupPc \in {"analyzed", "scan", "update", "rewrite_write", "rewrite_rename"}
             /\ result.duplicates = <<>>) =>
                /\ images' = images
                /\ Log' = Log
                /\ dedupPc' \notin {"scan", "rewrite_write", "rewrite_rename"}]_vars

\* two downloads, then a removal that dropped a record, then a second
\* analysis and removal, which has completed: its backup is the log it found
C39_Witness ==
    /\ dedupPc = "done"
    /\ ~dry_run
    /\ downloads = 2
    /\ Len(Log) = 1
    /\ result.duplicates = <<>>
    /\ result.total_images = 1
    /\ metaFiles[MetadataBackupPath] = metaFiles[MetadataPath]
    /\ preImages = images

(***************************************************************************)
(* Checkpoint files and enrichment (checked under SpecSearch)              *)
(***************************************************************************)
\* C4: a checkpoint save (progress.json and search_progress.json alike) writes
\* a temporary file and renames it: whenever the process is killed, the
\* canonical file is absent or a complete document, never a partial one.
C4_CheckpointNeverPartial ==
    /\ progressFiles[ProgressPath].st # "partial"
    /\ searchFiles[SearchProgressPath].st # "partial"

C4_Witness ==
    /\ runPc = "idle" /\ searchPc = "idle"
    /\ progressFiles[ProgressTempPath].st = "partial"
    /\ searchFiles[SearchTempPath].st = "partial"
    /\ searchFiles[SearchProgressPath].st = "full"

SearchActive == searchPc \notin {"idle", "done", "failed"}
ResultsOfRun == { i \in 1..Len(results) : results[i].searched_at = searchRuns }

\* C9: a filename of the completed set loaded at the start of an enrichment run
\* gets no backend call and no result record in that run.
C9_CompletedSkipped ==
    SearchActive =>
        \A F \in loadedCompleted :
            /\ \A k \in 1..Len(pending) : pending[k] # F
            /\ \A a \in attempted : a[1] # F
            /\ \A i \in ResultsOfRun : results[i].filename # F

C9_Witness ==
    /\ searchPc = "completed"
    /\ loadedCompleted # {}
    /\ ResultsOfRun # {}
    /\ \E i \in 1..Len(results) : results[i].filename \in loadedCompleted

\* completed_files of the checkpoint on disk
SavedCompleted ==
    IF searchFiles[SearchProgressPath].st = "full"
    THEN searchFiles[SearchProgressPath].val ELSE {}

\* C10: a filename enters the completed set, in memory or on disk, only after
\* every configured backend has been invoked for it in the current run.
C10_CompletedAfterAllServices ==
    SearchActive =>
        \A F \in (searchProgress \cup SavedCompleted) \ loadedCompleted :
            \A k \in 1..Len(services) : <<F, services[k]>> \in attempted

C10_Witness ==
    /\ searchPc = "search"
    /\ Len(services) = 2
    /\ \E F \in SavedCompleted \ loadedCompleted :
          /\ <<F, "tineye">> \in attempted /\ <<F, "bing">> \in attempted
          /\ \A i \in ResultsOfRun : results[i].filename = F => results[i].service = "tineye"

C18_OneRecordPerPair ==
    \A i, j \in 1..Len(results) :
        (results[i].filename = results[j].filename
            /\ results[i].service = results[j].service) => i = j

IsPrefix(s, t) == Len(s) <= Len(t) /\ SubSeq(t, 1, Len(s)) = s

\* C24: during acquisition and enrichment the metadata log only grows at its
\* end: every step leaves the records already present where they are, adds at
\* most one record, leaves metadata.jsonl a file of complete lines, and does
\* not touch metadata.jsonl.tmp or metadata.jsonl.backup.
C24_LogAppendOnly ==
    [][ /\ IsPrefix(Log, Log')
        /\ Len(Log') <= Len(Log) + 1
        /\ metaFiles'[MetadataPath].st \in {"absent", "full"}
        /\ metaFiles'[MetadataTempPath] = metaFiles[MetadataTempPath]
        /\ metaFiles'[MetadataBackupPath] = metaFiles[MetadataBackupPath] ]_vars

\* an acquisition run appends its third record after an enrichment run has
\* written results
C24_Witness ==
    /\ results # <<>>
    /\ \E p \in Pages : task[p].pc = "download"
    /\ Len(Log) = 3
    /\ atLoad.records = 2

\* the filenames for which every configured service has been called in this run
FullyAttempted ==
    { F \in { pending[k] : k \in 1..Len(pending) } :
        \A k \in 1..Len(services) : <<F, services[k]>> \in attempted }

\* C25: in an enrichment run, when a service may be called for an item, every
\* earlier item of the run is in the checkpoint on disk; at every moment at
\* most one item has had all its services called without being in the
\* checkpoint on disk, and it is the item in progress: a kill loses the
\* completion of that item at most.
C25_CheckpointBeforeNextItem ==
    SearchActive =>
        /\ searchPc = "search" => \A k \in 1..(idx - 1) : pending[k] \in SavedCompleted
        /\ FullyAttempted \ SavedCompleted \subseteq {pending[idx]}
        /\ \A k \in 1..(idx - 1) : pending[k] \in FullyAttempted

\* the second item has had all its services called and is not saved yet; the
\* first one is in the checkpoint on disk
C25_Witness ==
    /\ searchPc = "save_write"
    /\ idx = 2
    /\ Len(services) = 2
    /\ pending[1] # pending[2]
    /\ pending[1] \in SavedCompleted \ loadedCompleted
    /\ pending[2] \in FullyAttempted \ SavedCompleted

\* the records of this run for one filename and one service
RecordsOfPair(F, N) ==
    { i \in ResultsOfRun : results[i].filename = F /\ results[i].service = N }
\* the items of the run reached so far that carry the filename F
ItemsNamed(F) == { k \in 1..idx : pending[k] = F }

\* C26: a service whose search fails stops nothing.  A run that has loaded its
\* inputs never returns an error; every call leaves at most one record (none
\* when it fails) and only for the pair it was made for; the services after it
\* are called for the item, the item is marked completed whatever its calls
\* returned, and the later items are processed in the same way.
C26_BackendFailureSkipped ==
    /\ searchPc # "failed"
    /\ SearchActive =>
          /\ \A i \in ResultsOfRun :
                <<results[i].filename, results[i].service>> \in attempted
          /\ \A a \in attempted :
                Cardinality(RecordsOfPair(a[1], a[2])) <= Cardinality(ItemsNamed(a[1]))
          /\ \A k \in 1..(idx - 1) : \A s \in 1..Len(services) :
                <<pending[k], services[s]>> \in attempted
          /\ \A s \in 1..Len(services) :
                (searchPc # "search" \/ s < svc) =>
                    <<pending[idx], services[s]>> \in attempted
          /\ \A k \in 1..(idx - 1) : pending[k] \in searchProgress
          /\ searchPc \in {"save_write", "save_rename"} => pending[idx] \in searchProgress

\* both services failed for the first item: it has no record and is in the
\* checkpoint on disk; the second item has been searched and has a record
C26_Witness ==
    /\ searchPc = "completed"
    /\ idx = 2
    /\ Len(services) = 2
    /\ pending[1] # pending[2]
    /\ \A i \in 1..Len(results) : results[i].filename # pending[1]
    /\ pending[1] \in SavedCompleted
    /\ \E i \in ResultsOfRun : results[i].filename = pending[2]

(***************************************************************************)
(* Network calls (checked under SpecFetch)                                 *)
(***************************************************************************)
FetchCall == fetchPc \in {"fetch", "fetch_ok", "fetch_err"}
DownloadCall == fetchPc \in {"download", "download_ok", "download_err"}

\* C11: a page fetch makes at most max_retries HTTP requests in total, stops
\* at the first request that succeeds, and fails only after all of its
\* requests have failed.
C11_AtMostMaxRetriesAttempts ==
    (FetchCall /\ max_retries >= 1) =>
        /\ sent <= max_retries
        /\ \A k \in 1..(sent - 1) : responses[k] # "ok"
        /\ fetchPc = "fetch_ok" => responses[sent] = "ok"
        /\ fetchPc = "fetch_err" => \A k \in 1..sent : responses[k] # "ok"

\* C12: a resource download is covered by the retry policy: after a non-2xx
\* response or a transport error it is tried again (it does not end before
\* max_retries requests), and the body of a non-2xx response is never stored
\* as a blob nor recorded in the log.
C12_DownloadRetriedErrorNotStored ==
    DownloadCall =>
        /\ (fetchPc # "download" /\ responses[sent] # "ok") => sent >= max_retries
        /\ (sent >= 1 /\ responses[sent] = "http_error") =>
              /\ images = <<>>
              /\ load_all_metadata(metaFiles[MetadataPath]) = <<>>

\* C30: within one page fetch there is one wait before every attempt but the
\* first, and the wait before attempt k (k >= 1, the first attempt being
\* attempt 0) is 2^(k-1) seconds whatever the server answered: 1, 2, 4, ...
C30_ExponentialBackoff ==
    FetchCall =>
        /\ Len(waits) = IF sent = 0 THEN 0 ELSE sent - 1
        /\ \A k \in 1..Len(waits) : waits[k] = 2^(k - 1)

\* a fetch that failed twice and waited 1 s, then 2 s, before its third request
C30_Witness ==
    /\ FetchCall
    /\ sent = 3
    /\ waits = <<1, 2>>
(***************************************************************************)
(* Damaged stores (checked under SpecDamaged and SpecBadLog)               *)
(***************************************************************************)
\* C22: load_progress gives the zero-valued checkpoint when progress.json does
\* not exist (the run then starts at page 1 with nothing counted and no failed
\* page); when the file exists and does not parse the load fails and the run
\* ends there: no page task is launched, no page is fetched, no record is
\* appended, no blob is written and no checkpoint file is created.
C22_LoadCheckpoint ==
    /\ runPc = "failed" => progressFiles[ProgressPath].st = "partial"
    /\ (progressFiles[ProgressPath].st = "absent" /\ RunActive) =>
          /\ loadedLast = 0
          /\ atLoad.total = 0
          /\ atLoad.failed_pages = <<>>
          /\ start_page = 1
          /\ launched = {} => progress = ProgressNew
    /\ progressFiles[ProgressPath].st = "partial" =>
          /\ runPc \in {"idle", "failed"}
          /\ launched = {} /\ fetched = {}
          /\ \A p \in Pages : task[p] = NoTask
          /\ progressFiles[ProgressTempPath] = Absent
          /\ \E n \in 0..total_pages :
                /\ metaFiles[MetadataPath] = (IF n = 0 THEN Absent ELSE Full(LeftLog(n)))
                /\ images = LeftImages(LeftLog(n))

\* a run on a store of two records whose checkpoint does not parse has failed
C22_Witness ==
    /\ runPc = "failed"
    /\ progressFiles[ProgressPath].st = "partial"
    /\ Len(Log) >= 2
    /\ runs = 0

\* nothing has been read from the log and nothing has been written
NothingDone ==
    /\ dedupPc \in {"idle", "load_failed"}
    /\ searchPc \in {"idle", "failed"}
    /\ result = NoResult
    /\ pending = <<>>
    /\ results = <<>>
    /\ \A f \in DOMAIN searchFiles : searchFiles[f] = Absent
    /\ metaFiles[MetadataTempPath] = Absent /\ metaFiles[MetadataBackupPath] = Absent
    /\ \E n \in 0..total_pages :
          /\ load_all_metadata(metaFiles[MetadataPath]) = LeftLog(n)
          /\ images = LeftImages(LeftLog(n))

\* C23 as stated: whenever some line of metadata.jsonl is not a valid record
\* (a blank line is not one), the load fails as a whole, so that analyze and
\* the enrichment run return without a result, without pending items and
\* without changing the store.
C23_AnyInvalidLineFails ==
    metaFiles[MetadataPath].st \in {"blank_lines", "bad_line"} => NothingDone

\* C23, amended: whenever some non-blank line of metadata.jsonl is not a valid
\* record, the load fails as a whole (the valid lines are not returned), so that
\* analyze and the enrichment run return without a result, without pending
\* items and without changing the store.
C23_BadLineFailsLoad ==
    metaFiles[MetadataPath].st = "bad_line" => NothingDone

\* an enrichment run and then analyze have failed on a log of valid records and
\* a line that is not a record
C23_Witness ==
    /\ metaFiles[MetadataPath].st = "bad_line"
    /\ Len(load_all_metadata(metaFiles[MetadataPath])) >= 2
    /\ searchRuns >= 1
    /\ dedupPc = "load_failed"

(***************************************************************************)
(* Claims on the keyword filter.                                           *)
(***************************************************************************)
\* entry occurs in kw as a substring: with letter case respected, or
\* (fold) letter case apart
HasSubstring(kw, entry, fold) ==
    IF fold THEN contains(to_lowercase(kw), to_lowercase(entry)) ELSE contains(kw, entry)

\* kw satisfies the filter: long enough, no blocklist entry in it, and some
\* allowlist entry in it when the allowlist is not empty
Satisfies(self, kw, fold) ==
    /\ Len(kw) >= self.min_length
    /\ \A i \in 1..Len(self.blocklist) : ~HasSubstring(kw, self.blocklist[i], fold)
    /\ self.allowlist # <<>> =>
           \E i \in 1..Len(self.allowlist) : HasSubstring(kw, self.allowlist[i], fold)

\* C27: every keyword of every persisted search result satisfies the filter in
\* use (under one of the two readings of "substring"), whichever backend
\* produced the result.
C27_PersistedKeywordsFiltered ==
    \A i \in 1..Len(results) :
        \A j \in 1..Len(results[i].keywords) :
            \E fold \in BOOLEAN : Satisfies(filter, results[i].keywords[j], fold)

\* C28: KeywordFilter::filter returns, in input order, exactly the input
\* keywords that are at least min_length long, contain no blocklist entry and,
\* when the allowlist is not empty, contain an allowlist entry (under one of
\* the two readings of "substring").
C28_FilterReturnsSatisfying ==
    filterPc = "returned" =>
        \E fold \in BOOLEAN :
            filtered = SelectSeq(document.keywords, LAMBDA kw : Satisfies(filter, kw, fold))

CallsOfRun ==
    LET mine == SelectSeq(calls, LAMBDA c : c[1] = searchRuns) IN
    [k \in 1..Len(mine) |-> <<mine[k][2], mine[k][3]>>]

\* every pending item in its order, and for each item every service in the
\* configured order
CallPlan ==
    [k \in 1..(Len(pending) * Len(services)) |->
        <<pending[((k - 1) \div Len(services)) + 1], services[((k - 1) % Len(services)) + 1]>>]

\* C34: the loop holds at most one permit of its semaphore, and exactly one
\* while a search is in flight or its delay is running; the pending items are
\* those of the log in log order; and the calls started so far are the first
\* ones of the plan "every pending item in order, every service in configured
\* order", a call starting only when the permit of the previous one is back.
C34_StrictlySequential ==
    /\ held <= 1
    /\ held + gate = capacity
    /\ SearchActive =>
          /\ held = (IF searchPc \in {"call", "delay"} THEN 1 ELSE 0)
          /\ pending = Pending(load_all_metadata(metaFiles[MetadataPath]), loadedCompleted)
          /\ Len(CallsOfRun) <= Len(CallPlan)
          /\ CallsOfRun = SubSeq(CallPlan, 1, Len(CallsOfRun))
          /\ Len(CallsOfRun) = (idx - 1) * Len(services)
                               + (IF searchPc = "search" THEN svc - 1
                                  ELSE IF searchPc \in {"call", "delay"} THEN svc
                                  ELSE Len(services))

\* the second service is being called for the second pending item, with a
\* semaphore of two permits
C34_Witness ==
    /\ searchPc = "call"
    /\ capacity = 2
    /\ Len(services) = 2
    /\ idx = 2 /\ svc = 2
    /\ Len(CallsOfRun) = 4

\* progress.json of the enrichment: the completed filenames on disk
PersistedCompleted ==
    IF searchFiles[SearchProgressPath].st = "full"
    THEN searchFiles[SearchProgressPath].val ELSE {}

\* C40 (as stated): once append_result or save_progress has failed in a run,
\* the run is over with an error, the call it had started last was for the
\* item being processed, and that item is not in the persisted
\* completed_files; the next run has it among its pending items.
C40_WriteFailureAborts ==
    [][ /\ aborted'.run = searchRuns' =>
              /\ searchPc' = "failed"
              /\ calls'[Len(calls')][1] = aborted'.run
              /\ calls'[Len(calls')][2] = aborted'.filename
              /\ aborted'.filename \notin PersistedCompleted'
        /\ (aborted.run = searchRuns /\ aborted.run > 0 /\ searchRuns' # searchRuns) =>
              /\ searchPc' = "search"
              /\ \E k \in 1..Len(pending') : pending'[k] = aborted.filename
      ]_vars

\* C40 (amended): the same, the last two points for an item whose filename
\* no earlier item of the run had.
C40_WriteFailureAbortsItem ==
    [][ /\ aborted'.run = searchRuns' =>
              /\ searchPc' = "failed"
              /\ calls'[Len(calls')][1] = aborted'.run
              /\ calls'[Len(calls')][2] = aborted'.filename
              /\ ~aborted'.repeated => aborted'.filename \notin PersistedCompleted'
        /\ (aborted.run = searchRuns /\ aborted.run > 0 /\ searchRuns' # searchRuns
               /\ ~aborted.repeated) =>
              /\ searchPc' = "search"
              /\ \E k \in 1..Len(pending') : pending'[k] = aborted.filename
      ]_vars

\* the append of the second service's result failed after the first service's
\* result had been written
C40_Witness ==
    /\ searchPc = "failed"
    /\ aborted.run = searchRuns
    /\ aborted.run > 0
    /\ ~aborted.repeated
    /\ Len(results) = 1
    /\ results[1].filename = aborted.filename
    /\ Len(CallsOfRun) = 2

====
